---- MODULE Spec2Model ----
(***************************************************************************)
(* Catalogue aggregation and stale-while-revalidate cache of the course    *)
(* platform: the central aggregator ("Gestion Produits & Front-End.js"),   *)
(* and the browser cache layer of main.js.                                 *)
(*                                                                         *)
(* Conventions.  A JavaScript value that may be null / absent is a         *)
(* sequence of length 0 (null) or 1 (the value).  A text holding JSON is   *)
(* the record [json |-> value]; any other text is [raw |-> ...].  A call   *)
(* that may throw returns [threw |-> FALSE, value |-> v] or                *)
(* [threw |-> TRUE, error |-> message].  A string the code inspects by     *)
(* prefix (ScriptURL) is a sequence of one-character strings.              *)
(***************************************************************************)
EXTENDS Integers, Sequences, FiniteSets, Bags, TLC

VARIABLES
  registry,        \* data rows of the sheet "Catégories" (arrays of cells)
  cacheVersion,    \* script property 'cacheVersion' of the aggregator
  clock,           \* new Date().getTime() on the aggregator
  requests,        \* outbound requests of the last direct getPublicCatalog call
  fetched,         \* what the network made of each of those requests
  aggOut,          \* the HTTP response of that call
  sessionStorage,  \* the browser's session storage (three keys)
  inflight,        \* the client's fetches that have not settled yet (a bag)
  lastRead,        \* what the last settled getCatalogAndRefreshInBackground did
  snapshotAge,     \* time since the stored snapshot was written (history)
  bumps,           \* invalidations that have read the clock and not yet
                   \* written the script property (a bag)
  spreadsheet,     \* the sheets of a category service's spreadsheet, in order
  ficheOut,        \* the HTTP response of the last call of its doGet
  editRun,         \* the run of its onEdit trigger for the last edit
  catalogCalls,    \* the getPublicCatalog calls answered since the data were
                   \* last changed, the last two of them (history)
  handled,         \* the last two runs of the aggregator's handlers (history)
  scriptLock,      \* orders service: the invocation holding the script lock
  orderSheets,     \* orders service: the sheets Commandes and Logs
  orderCalls,      \* orders service: where each doPost invocation stands
  accountSheets,   \* accounts service: the sheets Utilisateurs and Logs
  accountCalls,    \* accounts service: where each doPost invocation stands
  coursAchetes,    \* learning service: the sheets Cours_Achetés and Reponses_Quiz
  achatOut,        \* learning service: the last doPost call and its outcome
  notifications,   \* notifications service: the sheet Notifications
  notifOut         \* notifications service: the last doPost call and its outcome

aggVars    == <<registry, cacheVersion, clock>>
callVars   == <<requests, fetched, aggOut>>
clientVars == <<sessionStorage, inflight, lastRead, snapshotAge>>
courseVars == <<spreadsheet, ficheOut, editRun>>
orderVars  == <<scriptLock, orderSheets, orderCalls>>
accountVars == <<accountSheets, accountCalls>>
shopVars   == <<coursAchetes, achatOut, notifications, notifOut>>
serviceVars == <<orderVars, accountVars, shopVars>>
otherVars  == <<bumps, courseVars, catalogCalls, handled, serviceVars>>
catalogSide == <<aggVars, callVars, clientVars, bumps, courseVars, catalogCalls,
                 handled>>
vars       == <<registry, cacheVersion, clock, requests, fetched, aggOut,
                sessionStorage, inflight, lastRead, snapshotAge, bumps,
                spreadsheet, ficheOut, editRun, catalogCalls, handled, scriptLock,
                orderSheets, orderCalls, accountSheets, accountCalls,
                coursAchetes, achatOut, notifications, notifOut>>

----------------------------------------------------------------------------
(* Bounds of the model *)

MaxRows == 3        \* data rows of the registry sheet
MaxClock == 2       \* last clock value of the aggregator
MaxInflight == 2    \* client fetches under way at one time
MaxBumps == 2       \* invalidations under way at one time
MaxCours == 2       \* data rows of a Cours_ sheet
MaxModules == 2     \* data rows of a Modules_ sheet
MaxChapitres == 2   \* data rows of a Chapitres_ sheet
MaxQuiz == 1        \* data rows of a quiz sheet
MaxOrderCalls == 2  \* doPost invocations of the orders service at one time
MaxOrders == 2      \* rows appended to Commandes
MaxAccountCalls == 2 \* doPost invocations of the accounts service at one time
MaxUsers == 2       \* rows appended to Utilisateurs
MaxLogs == 2        \* rows appended to the Logs sheet of the accounts service
MaxNotifs == 2      \* rows of the sheet Notifications
MaxItems == 2       \* items of one purchase
MaxAchats == 2      \* rows of the sheet Cours_Achetés

----------------------------------------------------------------------------
(* JavaScript values *)

None == <<>>
Some(v) == <<v>>

JSONstringify(v) == [json |-> v]

JSONparse(t) ==
  IF "json" \in DOMAIN t
    THEN [threw |-> FALSE, value |-> t.json]
    ELSE [threw |-> TRUE, error |-> "SyntaxError: Unexpected token"]

\* o[f], undefined (falsy) when the object has no such property
Has(o, f) == f \in DOMAIN o

\* Array.isArray: arrays are [array |-> <<...>>], other objects are records
IsArray(v) == DOMAIN v = {"array"}

StartsWith(s, p) == Len(s) >= Len(p) /\ SubSeq(s, 1, Len(p)) = p

----------------------------------------------------------------------------
(* The aggregator: registry sheet *)

Headers == <<"IDCategorie", "NomCategorie", "ScriptURL">>

SENTINEL == <<"R", "E", "M", "P", "L", "I", "R", "_">>

UrlA == <<"u", "/", "a">>
UrlB == <<"u", "/", "b">>
UrlUnset == SENTINEL \o <<"U", "R", "L">>
\* starts like the sentinel but lacks its last character: a configured URL
UrlNear == <<"R", "E", "M", "P", "L", "I", "R">>

ScriptURLs == {<<>>, UrlUnset, UrlNear, UrlA, UrlB}

\* the row written for position i, its ScriptURL cell being u
RegistryRow(i, u) == <<"CAT-00" \o ToString(i), "Nom" \o ToString(i), u>>

Registries ==
  UNION { { [i \in 1..n |-> RegistryRow(i, us[i])] : us \in [1..n -> ScriptURLs] }
          : n \in 0..MaxRows }

\* headers.forEach((header, index) => obj[header] = row[index])
RowToObject(row) ==
  [h \in {Headers[k] : k \in 1..Len(Headers)} |->
     row[CHOOSE k \in 1..Len(Headers) : Headers[k] = h]]

\* getCategories with the first data row shifted away along with the headers;
\* C9_EmptyActiveSet fails under it
getCategories_DropsFirstRow(data) ==
  [i \in 1..(Len(data) - 1) |-> RowToObject(data[i + 1])]

getCategories(data) == [i \in 1..Len(data) |-> RowToObject(data[i])]

----------------------------------------------------------------------------
(* The category endpoints, as the aggregator sees them *)

\* the course sheets a category service answers getProducts with
Courses(url) ==
  IF url = UrlA
    THEN << ("ID_Cours" :> "A-1"), ("ID_Cours" :> "A-2") >>
    ELSE << ("ID_Cours" :> "B-1") @@ ("Catégorie" :> "stale") >>

\* what can become of one outbound request
Outcomes == {"ok", "http500", "apiError", "notArray", "notJson", "netError"}

HttpReply(url, outcome) ==
  CASE outcome = "ok" ->
         [code |-> 200,
          text |-> JSONstringify([success |-> TRUE, data |-> [array |-> Courses(url)]])]
    [] outcome = "apiError" ->
         [code |-> 200,
          text |-> JSONstringify([success |-> FALSE, error |-> "Error"])]
    [] outcome = "notArray" ->
         [code |-> 200,
          text |-> JSONstringify([success |-> TRUE, data |-> [message |-> "none"]])]
    [] outcome = "notJson" ->
         [code |-> 200, text |-> [raw |-> "<html>"]]
    [] OTHER ->
         [code |-> 500, text |-> [raw |-> "<html>"]]

\* UrlFetchApp.fetchAll with muteHttpExceptions: one response per request, in
\* request order; a request that gets no HTTP response at all makes it throw
fetchAll(reqs, net) ==
  IF \E i \in 1..Len(reqs) : net[i] = "netError"
    THEN [threw |-> TRUE, error |-> "Exception: Address unavailable"]
    ELSE [threw |-> FALSE,
          value |-> [i \in 1..Len(reqs) |-> HttpReply(reqs[i].url[1], net[i])]]

----------------------------------------------------------------------------
(* The aggregator: getPublicCatalog *)

\* IsActive without the test of the placeholder prefix;
\* C7_OneRequestPerConfiguredRow fails under it
IsActive_NoSentinel(c) == c.ScriptURL # <<>>

IsActive(c) == c.ScriptURL # <<>> /\ ~StartsWith(c.ScriptURL, SENTINEL)

ActiveCategories(categories) == SelectSeq(categories, IsActive)

CategoryRequest(category) ==
  [url |-> <<category.ScriptURL, "?action=getProducts">>,
   method |-> "get", muteHttpExceptions |-> TRUE]

\* { Catégorie: categoryName, ...course }: a Catégorie the course carries wins;
\* C10_MergedProducts fails under it
WithCategory_KeepsOwn(course, categoryName) ==
  [f \in DOMAIN course \cup {"Catégorie"} |->
     IF f \in DOMAIN course THEN course[f] ELSE categoryName]

\* the products stamped with the stored token; C16_Idempotent fails under it
WithCategory_Stamped(course, categoryName) ==
  [f \in DOMAIN course \cup {"Catégorie", "cacheVersion"} |->
     IF f = "Catégorie" THEN categoryName
     ELSE IF f = "cacheVersion" THEN cacheVersion ELSE course[f]]

\* { ...course, Catégorie: categoryName }
WithCategory(course, categoryName) ==
  [f \in DOMAIN course \cup {"Catégorie"} |->
     IF f = "Catégorie" THEN categoryName ELSE course[f]]

\* the body of responses.forEach, from index i on, allCourses so far being acc
RECURSIVE MergeResponses(_, _, _, _)
MergeResponses(responses, activeCategories, i, acc) ==
  IF i > Len(responses) THEN [threw |-> FALSE, value |-> acc]
  ELSE IF responses[i].code = 200
    THEN LET parsed == JSONparse(responses[i].text) IN
         IF parsed.threw THEN parsed
         ELSE LET result == parsed.value IN
              IF Has(result, "success") /\ result.success
                 /\ Has(result, "data") /\ IsArray(result.data)
                THEN LET categoryName == activeCategories[i].NomCategorie
                         coursesWithCategory ==
                           [k \in 1..Len(result.data.array) |->
                              WithCategory(result.data.array[k], categoryName)]
                     IN MergeResponses(responses, activeCategories, i + 1,
                                       acc \o coursesWithCategory)
                ELSE MergeResponses(responses, activeCategories, i + 1, acc)
    ELSE MergeResponses(responses, activeCategories, i + 1, acc)

\* getPublicCatalog() over the registry rows `data`, UrlFetchApp.fetchAll
\* being FetchAll; `sent` is what it asked the network for
getPublicCatalogWith(data, FetchAll(_)) ==
  LET categories == getCategories(data)
      activeCategories == ActiveCategories(categories)
      reqs == [i \in 1..Len(activeCategories) |-> CategoryRequest(activeCategories[i])]
  IN IF Len(activeCategories) = 0
       THEN [threw |-> FALSE, sent |-> <<>>,
             value |-> [categories |-> categories, products |-> <<>>]]
       ELSE LET responses == FetchAll(reqs) IN
            IF responses.threw
              THEN [threw |-> TRUE, sent |-> reqs, error |-> responses.error]
              ELSE LET merged == MergeResponses(responses.value, activeCategories, 1, <<>>)
                   IN IF merged.threw
                        THEN [threw |-> TRUE, sent |-> reqs, error |-> merged.error]
                        ELSE [threw |-> FALSE, sent |-> reqs,
                              value |-> [categories |-> categories,
                                         products |-> merged.value]]

\* getPublicCatalog(), the network answering the k-th outbound request with
\* net[k]
getPublicCatalog(data, net) ==
  LET FetchAll(reqs) == fetchAll(reqs, net) IN getPublicCatalogWith(data, FetchAll)

----------------------------------------------------------------------------
(* The aggregator: doGet *)

createJsonResponse(data) == [status |-> 200, text |-> JSONstringify(data)]

\* doGet(e) with e.parameter.action = action, UrlFetchApp.fetchAll being
\* FetchAll.  The result names the HTTP response, the value of the script
\* property afterwards and the outbound requests made.
doGetWith(action, data, version, now, FetchAll(_)) ==
  IF action = "invalidateCache"
    THEN LET newVersion == ToString(now) IN
         [response |-> createJsonResponse(
                         [success |-> TRUE,
                          message |-> "Cache invalidé. Nouvelle version: " \o newVersion]),
          cacheVersion |-> Some(newVersion), sent |-> <<>>]
  ELSE IF action = "getCacheVersion"
    THEN [response |-> createJsonResponse(
                         [success |-> TRUE,
                          cacheVersion |-> IF version = None THEN "0" ELSE version[1]]),
          cacheVersion |-> version, sent |-> <<>>]
  ELSE IF action = "getPublicCatalog"
    THEN LET catalog == getPublicCatalogWith(data, FetchAll) IN
         IF catalog.threw
           THEN [response |-> createJsonResponse(
                                [success |-> FALSE, error |-> catalog.error]),
                 cacheVersion |-> version, sent |-> catalog.sent]
           ELSE [response |-> createJsonResponse(
                                [success |-> TRUE, data |-> catalog.value,
                                 cacheVersion |-> version]),
                 cacheVersion |-> version, sent |-> catalog.sent]
  ELSE [response |-> createJsonResponse(
                       [success |-> TRUE,
                        message |-> "API Centrale ABMCY Market - Active"]),
        cacheVersion |-> version, sent |-> <<>>]

\* doGet(e), the network answering the k-th outbound request with net[k]
doGet(action, data, version, now, net) ==
  LET FetchAll(reqs) == fetchAll(reqs, net)
  IN doGetWith(action, data, version, now, FetchAll)

\* the ways the network can treat the outbound requests of a registry, each
\* request meeting one of `outcomes`
NetsOver(data, outcomes) ==
  [1..Len(ActiveCategories(getCategories(data))) -> outcomes]

Nets(data) == NetsOver(data, Outcomes)

----------------------------------------------------------------------------
(* The category service: its spreadsheet *)

\* A sheet name is the sequence of its parts: "Cours_Backend" is
\* <<"Cours_", "Backend">>.  A sheet is [name, values], values being the
\* rows of getValues(), the header row first.
CategoryName == <<"Backend">>

CoursHeaders == <<"ID_Cours", "Nom_Cours">>
ModulesHeaders == <<"ID_Cours", "ID_Module", "Nom_Module", "Ordre_Module">>
ChapitresHeaders == <<"ID_Module", "ID_Chapitre", "Nom_Chapitre", "Ordre_Chapitre">>
QuizChapitresHeaders == <<"ID_Chapitre", "Question">>
QuizModulesHeaders == <<"ID_Module", "Question">>

\* the sheets setupCourseSheets creates, in the order it creates them
SheetStructures ==
  << [name |-> <<"Cours_">> \o CategoryName, values |-> <<CoursHeaders>>],
     [name |-> <<"Modules_">> \o CategoryName, values |-> <<ModulesHeaders>>],
     [name |-> <<"Chapitres_">> \o CategoryName, values |-> <<ChapitresHeaders>>],
     [name |-> <<"Quiz_Chapitres_">> \o CategoryName, values |-> <<QuizChapitresHeaders>>],
     [name |-> <<"Quiz_Modules_">> \o CategoryName, values |-> <<QuizModulesHeaders>>] >>

IdsCours == {"C-001", "C-002"}
Ordres == {1, 2}

\* the rows a sheet can hold: at position i the row of the i-th module,
\* chapter or question
CoursRow(id) == <<id, "Cours " \o id>>
ModuleRow(i, idCours, ordre) == <<idCours, "M-" \o ToString(i), "Module", ordre>>
ChapitreRow(i, idModule, ordre) == <<idModule, "CH-" \o ToString(i), "Chapitre", ordre>>
QuizRow(i, id) == <<id, "Question " \o ToString(i)>>

IdsModules == { "M-" \o ToString(i) : i \in 1..MaxModules }
IdsChapitres == { "CH-" \o ToString(i) : i \in 1..MaxChapitres }

\* the data rows each sheet can hold
CoursData ==
  UNION { [1..k -> { CoursRow(id) : id \in IdsCours }] : k \in 0..MaxCours }
ModulesData ==
  UNION { { [i \in 1..k |-> ModuleRow(i, c[i][1], c[i][2])] :
              c \in [1..k -> IdsCours \X Ordres] } : k \in 0..MaxModules }
ChapitresData ==
  UNION { { [i \in 1..k |-> ChapitreRow(i, c[i][1], c[i][2])] :
              c \in [1..k -> IdsModules \X Ordres] } : k \in 0..MaxChapitres }
QuizChapitresData ==
  UNION { { [i \in 1..k |-> QuizRow(i, c[i])] : c \in [1..k -> IdsChapitres] }
          : k \in 0..MaxQuiz }
QuizModulesData ==
  UNION { { [i \in 1..k |-> QuizRow(i, c[i])] : c \in [1..k -> IdsModules] }
          : k \in 0..MaxQuiz }

\* a sheet that may have been deleted
Opt(S) == {None} \cup { Some(x) : x \in S }

\* the k-th sheet of SheetStructures with data rows below its header, or
\* nothing when the sheet is gone
Present(k, data) ==
  IF data = None THEN <<>>
  ELSE << [name |-> SheetStructures[k].name,
           values |-> SheetStructures[k].values \o data[1]] >>

\* a spreadsheet always keeps one sheet
Workbook(cours, modules, chapitres, quizChapitres, quizModules) ==
  LET sheets == Present(1, cours) \o Present(2, modules) \o Present(3, chapitres)
                \o Present(4, quizChapitres) \o Present(5, quizModules)
  IN IF sheets = <<>> THEN << [name |-> <<"Feuille 1">>, values |-> <<>>] >>
     ELSE sheets

Spreadsheets ==
  { Workbook(a, b, c, d, e) :
      a \in Opt(CoursData), b \in Opt(ModulesData), c \in Opt(ChapitresData),
      d \in Opt(QuizChapitresData), e \in Opt(QuizModulesData) }

----------------------------------------------------------------------------
(* The category service: assembling the course sheets *)

\* ss.getSheetByName(name): the sheet, or null
getSheetByName(ss, name) ==
  IF \E k \in 1..Len(ss) : ss[k].name = name
    THEN Some(ss[CHOOSE k \in 1..Len(ss) :
                   ss[k].name = name /\ \A j \in 1..(k - 1) : ss[j].name # name])
    ELSE None

\* sheetName.replace('Cours_', ''): the first part 'Cours_' is taken out
RemoveCoursPrefix(name) ==
  IF \E k \in 1..Len(name) : name[k] = "Cours_"
    THEN LET k == CHOOSE k \in 1..Len(name) :
                    name[k] = "Cours_" /\ \A j \in 1..(k - 1) : name[j] # "Cours_"
         IN SubSeq(name, 1, k - 1) \o SubSeq(name, k + 1, Len(name))
    ELSE name

getCategoryName(ss) == RemoveCoursPrefix(ss[1].name)

\* one data row as an object keyed by the non-empty headers
RowObject(headers, row) ==
  [h \in { headers[k] : k \in 1..Len(headers) } \ {""} |->
     row[CHOOSE k \in 1..Len(headers) :
           headers[k] = h /\ \A j \in (k + 1)..Len(headers) : headers[j] # h]]

sheetToJSON(sheet) ==
  IF sheet = None \/ Len(sheet[1].values) < 2 THEN <<>>
  ELSE LET data == sheet[1].values
           headers == Head(data)
       IN [i \in 1..(Len(data) - 1) |-> RowObject(headers, data[i + 1])]

\* array.filter(test)
Filter(array, Test(_)) == SelectSeq(array, Test)

\* (a, b) => a[field] - b[field]
CompareBy(a, b, field) == a[field] - b[field]

\* x inserted into the sorted array `sorted` behind every element that the
\* comparison does not put after it
RECURSIVE InsertSorted(_, _, _)
InsertSorted(sorted, x, field) ==
  IF sorted = <<>> THEN <<x>>
  ELSE IF CompareBy(sorted[Len(sorted)], x, field) <= 0 THEN Append(sorted, x)
  ELSE Append(InsertSorted(SubSeq(sorted, 1, Len(sorted) - 1), x, field),
              sorted[Len(sorted)])

\* array.sort((a, b) => a[field] - b[field]), a stable sort
RECURSIVE Sort(_, _)
Sort(array, field) ==
  IF array = <<>> THEN <<>>
  ELSE InsertSorted(Sort(SubSeq(array, 1, Len(array) - 1), field),
                    array[Len(array)], field)

\* getModulesByCours without the sort; C12_OrderedModulesAndChapters fails
\* under it
getModulesByCours_Unsorted(idCours, allModules) ==
  LET OfCours(m) == m.ID_Cours = idCours IN Filter(allModules, OfCours)

getModulesByCours(idCours, allModules) ==
  LET OfCours(m) == m.ID_Cours = idCours
  IN Sort(Filter(allModules, OfCours), "Ordre_Module")

\* getChapitresByModule without the filter; C13_Isolation fails under it
getChapitresByModule_All(idModule, allChapitres) ==
  Sort(allChapitres, "Ordre_Chapitre")

getChapitresByModule(idModule, allChapitres) ==
  LET OfModule(c) == c.ID_Module = idModule
  IN Sort(Filter(allChapitres, OfModule), "Ordre_Chapitre")

\* getQuizByChapitre finding nothing; C14_AssemblyComplete fails under it
getQuizByChapitre_None(idChapitre, allQuiz) == <<>>

getQuizByChapitre(idChapitre, allQuiz) ==
  LET OfChapitre(q) == q.ID_Chapitre = idChapitre IN Filter(allQuiz, OfChapitre)

getQuizByModule(idModule, allQuiz) ==
  LET OfModule(q) == q.ID_Module = idModule IN Filter(allQuiz, OfModule)

\* object with the property `field` set to `value`
WithProperty(object, field, value) ==
  [f \in DOMAIN object \cup {field} |-> IF f = field THEN value ELSE object[f]]

\* generateFicheCours(idCours, allData): the sheet, or null
generateFicheCours(idCours, allData) ==
  IF \A k \in 1..Len(allData.cours) : allData.cours[k].ID_Cours # idCours
    THEN None
  ELSE LET coursBase ==
             allData.cours[CHOOSE k \in 1..Len(allData.cours) :
                             /\ allData.cours[k].ID_Cours = idCours
                             /\ \A j \in 1..(k - 1) : allData.cours[j].ID_Cours # idCours]
           modulesDuCours == getModulesByCours(idCours, allData.modules)
           WithQuiz(chapitre) ==
             WithProperty(chapitre, "quiz",
                          getQuizByChapitre(chapitre.ID_Chapitre, allData.quizChapitres))
           Assembled(module) ==
             LET chapitresDuModule ==
                   getChapitresByModule(module.ID_Module, allData.chapitres)
             IN WithProperty(
                  WithProperty(module, "chapitres",
                               [k \in 1..Len(chapitresDuModule) |->
                                  WithQuiz(chapitresDuModule[k])]),
                  "quiz", getQuizByModule(module.ID_Module, allData.quizModules))
       IN Some(WithProperty(coursBase, "modules",
                            [k \in 1..Len(modulesDuCours) |->
                               Assembled(modulesDuCours[k])]))

NotNull(f) == f # None

\* getAllCoursData dropping the courses that have no module;
\* C15_MissingTablesReadEmpty fails under it
getAllCoursData_DropsEmpty(ss, categoryName) ==
  LET allData ==
        [cours |-> sheetToJSON(getSheetByName(ss, <<"Cours_">> \o categoryName)),
         modules |-> sheetToJSON(getSheetByName(ss, <<"Modules_">> \o categoryName)),
         chapitres |-> sheetToJSON(getSheetByName(ss, <<"Chapitres_">> \o categoryName)),
         quizChapitres |->
           sheetToJSON(getSheetByName(ss, <<"Quiz_Chapitres_">> \o categoryName)),
         quizModules |->
           sheetToJSON(getSheetByName(ss, <<"Quiz_Modules_">> \o categoryName))]
      fichesCompletes ==
        [k \in 1..Len(allData.cours) |->
           generateFicheCours(allData.cours[k].ID_Cours, allData)]
      HasModules(f) == f # None /\ f[1].modules # <<>>
      kept == SelectSeq(fichesCompletes, HasModules)
  IN [k \in 1..Len(kept) |-> kept[k][1]]

\* getAllCoursData(categoryName) over the spreadsheet ss
getAllCoursData(ss, categoryName) ==
  LET allData ==
        [cours |-> sheetToJSON(getSheetByName(ss, <<"Cours_">> \o categoryName)),
         modules |-> sheetToJSON(getSheetByName(ss, <<"Modules_">> \o categoryName)),
         chapitres |-> sheetToJSON(getSheetByName(ss, <<"Chapitres_">> \o categoryName)),
         quizChapitres |->
           sheetToJSON(getSheetByName(ss, <<"Quiz_Chapitres_">> \o categoryName)),
         quizModules |->
           sheetToJSON(getSheetByName(ss, <<"Quiz_Modules_">> \o categoryName))]
      fichesCompletes ==
        [k \in 1..Len(allData.cours) |->
           generateFicheCours(allData.cours[k].ID_Cours, allData)]
      kept == SelectSeq(fichesCompletes, NotNull)
  IN [k \in 1..Len(kept) |-> kept[k][1]]

\* doGet(e) of the category service, e.parameter.action being `action`
Category_doGet(action, ss) ==
  IF action = "getProducts"
    THEN LET categoryName == getCategoryName(ss)
             fichesCours == getAllCoursData(ss, categoryName)
         IN createJsonResponse([success |-> TRUE, data |-> [array |-> fichesCours]])
    ELSE createJsonResponse([success |-> FALSE, error |-> "Action GET non reconnue."])

----------------------------------------------------------------------------
(* Initial state *)

InitAgg(reg) ==
  /\ registry = reg
  /\ cacheVersion = None
  /\ clock = 1

InitCall ==
  /\ requests = <<>>
  /\ fetched = <<>>
  /\ aggOut = None

InitClient ==
  /\ sessionStorage = [abmcyFullCatalog |-> None, abmcyCacheVersion |-> None,
                       abmcyCacheTimestamp |-> None]
  /\ inflight = EmptyBag
  /\ lastRead = None
  /\ snapshotAge = None

\* a text the accounts service compares letter by letter is the sequence of
\* its characters
EmailClient == <<"c", "@", "t">>
EmailSenior == <<"s", "@", "t">>

\* hashPassword(password, salt): the digest of password + salt
hashPassword(password, salt) == [passwordHash |-> <<password, salt>>, salt |-> salt]

\* a row of the sheet Utilisateurs
UserRow(idClient, email, motDePasse, role) ==
  [IDClient |-> idClient, Email |-> email,
   PasswordHash |-> hashPassword(motDePasse, "uuid").passwordHash, Salt |-> "uuid",
   Role |-> role, Bio |-> ""]

\* the two test users setupProject adds
TestUsers ==
  << UserRow("CLT-TEST-001", EmailClient, "password123", "Client"),
     UserRow("SNR-TEST-002", EmailSenior, "password123", "Senior") >>

\* the orders and the accounts service after setupProject, no request under way
InitOrders ==
  /\ scriptLock = None
  /\ orderSheets = [Commandes |-> Some(<<>>), Logs |-> Some(<<>>)]
  /\ orderCalls = [i \in 1..MaxOrderCalls |-> [pc |-> "idle"]]

InitAccounts ==
  /\ accountSheets = [Utilisateurs |-> Some(TestUsers), Logs |-> Some(<<>>)]
  /\ accountCalls = [i \in 1..MaxAccountCalls |-> [pc |-> "idle"]]

\* the learning and the notifications service after setupProject
InitShop ==
  /\ coursAchetes = [Cours_Achetes |-> Some(<<>>), Reponses_Quiz |-> Some(<<>>)]
  /\ achatOut = None
  /\ notifications = Some(<<>>)
  /\ notifOut = None

InitServices == InitOrders /\ InitAccounts /\ InitShop

\* the category spreadsheet of the deployment: the sheets as setupCourseSheets
\* leaves them, before seedDefaultCourseData
InitOther ==
  /\ bumps = EmptyBag
  /\ spreadsheet = SheetStructures
  /\ ficheOut = None
  /\ editRun = None
  /\ catalogCalls = <<>>
  /\ handled = <<>>
  /\ InitServices

----------------------------------------------------------------------------
(* Direct calls of the aggregator's web app *)

\* GET ?action=getPublicCatalog, by a caller that holds no response yet
CallGetPublicCatalog ==
  /\ aggOut = None
  /\ \E net \in Nets(registry) :
       LET r == doGet("getPublicCatalog", registry, cacheVersion, clock, net) IN
       /\ requests' = r.sent
       /\ fetched' = net
       /\ aggOut' = Some(r.response)
       /\ cacheVersion' = r.cacheVersion
       /\ UNCHANGED <<registry, clock, clientVars, otherVars>>

\* the caller has read the response and drops it
TakeResponse ==
  /\ aggOut # None
  /\ requests' = <<>>
  /\ fetched' = <<>>
  /\ aggOut' = None
  /\ UNCHANGED <<aggVars, clientVars, otherVars>>

\* GET ?action=invalidateCache, as the category services send it
CallInvalidateCache ==
  LET r == doGet("invalidateCache", registry, cacheVersion, clock, <<>>) IN
  /\ cacheVersion' = r.cacheVersion
  /\ UNCHANGED <<registry, clock, callVars, clientVars, otherVars>>

\* the aggregator's clock advances
ClockTick ==
  /\ clock < MaxClock
  /\ clock' = clock + 1
  /\ UNCHANGED <<registry, cacheVersion, callVars, clientVars, otherVars>>

InitCatalog ==
  /\ \E reg \in Registries : InitAgg(reg)
  /\ InitCall
  /\ InitClient
  /\ InitOther

NextCatalog ==
  \/ CallGetPublicCatalog
  \/ TakeResponse
  \/ CallInvalidateCache

SpecCatalog == InitCatalog /\ [][NextCatalog]_vars

----------------------------------------------------------------------------
(* The browser: session cache of main.js *)

CACHE_LIFETIME == 5 * 60 * 1000    \* milliseconds

\* Time passes on the client in steps of TickMs.  A stored timestamp is held
\* as the time elapsed since it was written, Date.now() - parseInt(value);
\* beyond MaxAge the code tells no two ages apart.
TickMs == CACHE_LIFETIME \div 2
MaxAge == CACHE_LIFETIME + TickMs

Later(age) == IF age + TickMs > MaxAge THEN MaxAge ELSE age + TickMs

\* sessionStorage.setItem(key, value) turns the value into a string
DOMString(v) == IF v = None THEN "null" ELSE v[1]

\* what `await fetch(url)` can settle with
Rejected == [threw |-> TRUE, error |-> "Failed to fetch"]
NotOk == [threw |-> FALSE,
          value |-> [ok |-> FALSE, statusText |-> "Internal Server Error"]]
Delivered(response) ==
  [threw |-> FALSE, value |-> [ok |-> TRUE, text |-> response.text]]

EmptyCatalog(message) ==
  [success |-> FALSE, data |-> [categories |-> <<>>, products |-> <<>>],
   error |-> message]

\* getFullCatalog storing the reply before it looks at result.success;
\* C5_FailedInitialFetch fails under it
getFullCatalog_StoresFirst(store, reply) ==
  IF reply.threw THEN [store |-> store, ret |-> EmptyCatalog(reply.error)]
  ELSE IF ~reply.value.ok
    THEN [store |-> store,
          ret |-> EmptyCatalog("Erreur réseau: " \o reply.value.statusText)]
  ELSE LET parsed == JSONparse(reply.value.text) IN
       IF parsed.threw THEN [store |-> store, ret |-> EmptyCatalog(parsed.error)]
       ELSE LET result == parsed.value
                stored == [store EXCEPT
                             !.abmcyFullCatalog = Some(JSONstringify(result)),
                             !.abmcyCacheVersion =
                                Some(IF Has(result, "cacheVersion")
                                       THEN DOMString(result.cacheVersion)
                                       ELSE "undefined")]
            IN IF ~(Has(result, "success") /\ result.success)
                 THEN [store |-> stored,
                       ret |-> EmptyCatalog(IF Has(result, "error") THEN result.error
                                            ELSE "L'API a retourné une erreur.")]
                 ELSE [store |-> stored, ret |-> result]

\* getFullCatalog(), from the point where its fetch settles with `reply`:
\* the storage afterwards and the value returned
getFullCatalog(store, reply) ==
  IF reply.threw THEN [store |-> store, ret |-> EmptyCatalog(reply.error)]
  ELSE IF ~reply.value.ok
    THEN [store |-> store,
          ret |-> EmptyCatalog("Erreur réseau: " \o reply.value.statusText)]
  ELSE LET parsed == JSONparse(reply.value.text) IN
       IF parsed.threw THEN [store |-> store, ret |-> EmptyCatalog(parsed.error)]
       ELSE LET result == parsed.value IN
            IF ~(Has(result, "success") /\ result.success)
              THEN [store |-> store,
                    ret |-> EmptyCatalog(IF Has(result, "error") THEN result.error
                                         ELSE "L'API a retourné une erreur.")]
              ELSE [store |-> [store EXCEPT
                                !.abmcyFullCatalog = Some(JSONstringify(result)),
                                !.abmcyCacheVersion = Some(DOMString(result.cacheVersion))],
                    ret |-> result]

\* fetchAndUpdateCache without the write of the timestamp, as in
\* getFullCatalog; C3_StaleReadRefetches fails under it
fetchAndUpdateCache_NoTimestamp(store, reply) ==
  IF reply.threw THEN store
  ELSE IF ~reply.value.ok THEN store
  ELSE LET parsed == JSONparse(reply.value.text) IN
       IF parsed.threw THEN store
       ELSE LET result == parsed.value IN
            IF Has(result, "success") /\ result.success
              THEN [store EXCEPT
                      !.abmcyFullCatalog = Some(JSONstringify(result)),
                      !.abmcyCacheVersion = Some(DOMString(result.cacheVersion))]
              ELSE store

\* fetchAndUpdateCache writing the timestamp before it looks at
\* result.success; C4_FailedRefetchKeepsCache fails under it
fetchAndUpdateCache_StampsFirst(store, reply) ==
  IF reply.threw THEN store
  ELSE IF ~reply.value.ok THEN store
  ELSE LET parsed == JSONparse(reply.value.text) IN
       IF parsed.threw THEN store
       ELSE LET result == parsed.value IN
            IF Has(result, "success") /\ result.success
              THEN [abmcyFullCatalog |-> Some(JSONstringify(result)),
                    abmcyCacheVersion |-> Some(DOMString(result.cacheVersion)),
                    abmcyCacheTimestamp |-> Some(0)]
              ELSE [store EXCEPT !.abmcyCacheTimestamp = Some(0)]

\* fetchAndUpdateCache(), from the point where its fetch settles with `reply`:
\* the storage afterwards
fetchAndUpdateCache(store, reply) ==
  IF reply.threw THEN store
  ELSE IF ~reply.value.ok THEN store
  ELSE LET parsed == JSONparse(reply.value.text) IN
       IF parsed.threw THEN store
       ELSE LET result == parsed.value IN
            IF Has(result, "success") /\ result.success
              THEN [abmcyFullCatalog |-> Some(JSONstringify(result)),
                    abmcyCacheVersion |-> Some(DOMString(result.cacheVersion)),
                    abmcyCacheTimestamp |-> Some(0)]
              ELSE store

\* isCacheStale without the test of the age; C6_ClientCatchesUp fails under it
isCacheStale_MissingOnly(cacheTimestamp) == cacheTimestamp = None

\* isCacheStale with the boundary counted as stale; C21_StalenessBoundary
\* fails under it
isCacheStale_Inclusive(cacheTimestamp) ==
  cacheTimestamp = None \/ cacheTimestamp[1] >= CACHE_LIFETIME

\* !cacheTimestamp || (Date.now() - parseInt(cacheTimestamp) > CACHE_LIFETIME)
isCacheStale(cacheTimestamp) ==
  cacheTimestamp = None \/ cacheTimestamp[1] > CACHE_LIFETIME

\* a fetch of ?action=getPublicCatalog that has left the browser
NewFetch(kind) == [kind |-> kind, response |-> None]

\* the fetches under way, f started or settled
Started(f) == inflight (+) SetToBag({f})
Settled(f) == inflight (-) SetToBag({f})

Pending == BagToSet(inflight)

\* whether storing `reply` writes the snapshot
Stores(reply) ==
  /\ ~reply.threw
  /\ reply.value.ok
  /\ ~JSONparse(reply.value.text).threw
  /\ Has(JSONparse(reply.value.text).value, "success")
  /\ JSONparse(reply.value.text).value.success

\* getCatalogAndRefreshInBackground() with a snapshot in the cache: it returns
\* at once, after starting fetchAndUpdateCache() when the cache is stale
ReadCached ==
  LET cachedData == sessionStorage.abmcyFullCatalog
      cacheTimestamp == sessionStorage.abmcyCacheTimestamp
  IN /\ cachedData # None
     /\ IF isCacheStale(cacheTimestamp)
          THEN /\ BagCardinality(inflight) < MaxInflight
               /\ inflight' = Started(NewFetch("background"))
               /\ lastRead' = Some([cached |-> TRUE, fetches |-> 1,
                                    ret |-> JSONparse(cachedData[1]).value])
          ELSE /\ inflight' = inflight
               /\ lastRead' = Some([cached |-> TRUE, fetches |-> 0,
                                    ret |-> JSONparse(cachedData[1]).value])
     /\ UNCHANGED <<sessionStorage, snapshotAge, aggVars, callVars, otherVars>>

\* getCatalogAndRefreshInBackground() with no snapshot: it awaits getFullCatalog()
ReadEmpty ==
  /\ sessionStorage.abmcyFullCatalog = None
  /\ BagCardinality(inflight) < MaxInflight
  /\ inflight' = Started(NewFetch("initial"))
  /\ UNCHANGED <<sessionStorage, lastRead, snapshotAge, aggVars, callVars, otherVars>>

\* the registry the deployed aggregator serves: one configured category and
\* one still carrying the placeholder of setupCentralSheet
DeployedRegistry == << RegistryRow(1, UrlA), RegistryRow(2, UrlUnset) >>

\* the values the script property can take
Versions == {None} \cup { Some(ToString(t)) : t \in 1..MaxClock }

\* While the browser is followed, a category endpoint either answers with
\* its courses or with a page that is no JSON: the first makes the
\* aggregator answer success:true, the second success:false.
SessionOutcomes == {"ok", "notJson"}

\* doGet of ?action=getPublicCatalog over the deployed registry, tabulated:
\* for each value of the script property, its results, one for each way the
\* network can treat the outbound requests
DeployedAnswers ==
  [version \in Versions |->
     { doGet("getPublicCatalog", DeployedRegistry, version, 1, net) :
         net \in NetsOver(DeployedRegistry, SessionOutcomes) }]

\* what doGet can make of ?action=getPublicCatalog in the present state
CatalogAnswers ==
  IF registry = DeployedRegistry
    THEN DeployedAnswers[cacheVersion]
    ELSE { doGet("getPublicCatalog", registry, cacheVersion, clock, net) :
             net \in NetsOver(registry, SessionOutcomes) }

\* the aggregator's doGet answers the fetch f with r
ServeWith(f, r) ==
  /\ f.response = None
  /\ inflight' = Settled(f) (+) SetToBag({[f EXCEPT !.response = Some(r.response)]})
  /\ cacheVersion' = r.cacheVersion
  /\ UNCHANGED <<registry, clock, callVars, sessionStorage, lastRead, snapshotAge, otherVars>>

Serve(f) == \E r \in CatalogAnswers : ServeWith(f, r)

\* the fetch f settles with `reply`
Settle(f, reply) ==
  /\ IF f.kind = "initial"
       THEN LET done == getFullCatalog(sessionStorage, reply) IN
            /\ sessionStorage' = done.store
            /\ lastRead' = Some([cached |-> FALSE, fetches |-> 1, ret |-> done.ret])
       ELSE /\ sessionStorage' = fetchAndUpdateCache(sessionStorage, reply)
            /\ lastRead' = lastRead
  /\ snapshotAge' = IF Stores(reply) THEN Some(0) ELSE snapshotAge
  /\ inflight' = Settled(f)
  /\ UNCHANGED <<aggVars, callVars, otherVars>>

\* the response of the aggregator reaches the browser
FetchDelivered(f) ==
  /\ f.response # None
  /\ Settle(f, Delivered(f.response[1]))

\* the platform answers with an error status instead of the script's response
FetchNotOk(f) == Settle(f, NotOk)

\* the request or its response is lost: fetch() rejects
FetchRejected(f) == Settle(f, Rejected)

\* time passes in the browser
Tick ==
  /\ sessionStorage' =
       [sessionStorage EXCEPT
          !.abmcyCacheTimestamp = IF @ = None THEN None ELSE Some(Later(@[1]))]
  /\ snapshotAge' = IF snapshotAge = None THEN None ELSE Some(Later(snapshotAge[1]))
  /\ UNCHANGED <<inflight, lastRead, aggVars, callVars, otherVars>>

Init ==
  /\ InitAgg(DeployedRegistry)
  /\ InitCall
  /\ InitClient
  /\ InitOther

Next ==
  \/ ReadCached
  \/ ReadEmpty
  \/ \E f \in Pending : Serve(f)
  \/ \E f \in Pending : FetchDelivered(f)
  \/ \E f \in Pending : FetchNotOk(f)
  \/ \E f \in Pending : FetchRejected(f)
  \/ Tick
  \/ CallInvalidateCache
  \/ ClockTick

Spec == Init /\ [][Next]_vars

----------------------------------------------------------------------------
(* What the claims about getPublicCatalog speak of, read off the sheet *)

\* the cell of column `header` in data row i of the registry
Cell(i, header) ==
  registry[i][CHOOSE k \in 1..Len(Headers) : Headers[k] = header]

\* the rows whose ScriptURL is non-empty and does not begin with REMPLIR_
ConfiguredRows ==
  { i \in 1..Len(registry) :
      LET u == Cell(i, "ScriptURL") IN
      /\ Len(u) > 0
      /\ ~(Len(u) >= Len(SENTINEL) /\ \A k \in 1..Len(SENTINEL) : u[k] = SENTINEL[k]) }

\* the position of configured row i among the configured rows
Rank(i) == Cardinality({ j \in ConfiguredRows : j <= i })

\* the configured row at position k
RowAt(k) == CHOOSE i \in ConfiguredRows : Rank(i) = k

\* the HTTP reply the k-th outbound request of the last call got
ReplyAt(k) == HttpReply(Cell(RowAt(k), "ScriptURL"), fetched[k])

\* a reply with HTTP 200, success = true and an array as data
Usable(reply) ==
  /\ reply.code = 200
  /\ "json" \in DOMAIN reply.text
  /\ "success" \in DOMAIN reply.text.json
  /\ reply.text.json.success = TRUE
  /\ "data" \in DOMAIN reply.text.json
  /\ DOMAIN reply.text.json.data = {"array"}

\* the body of the response the caller holds
Answer == aggOut[1].text.json

Answered == aggOut # None

\* the items the k-th request contributes, as the claim describes them
Contribution(k) ==
  IF Usable(ReplyAt(k))
    THEN LET items == ReplyAt(k).text.json.data.array IN
         [n \in 1..Len(items) |->
            [f \in DOMAIN items[n] \cup {"Catégorie"} |->
               IF f = "Catégorie" THEN Cell(RowAt(k), "NomCategorie")
                                  ELSE items[n][f]]]
    ELSE <<>>

RECURSIVE Grouped(_)
Grouped(k) == IF k = 0 THEN <<>> ELSE Grouped(k - 1) \o Contribution(k)

\* C7: getPublicCatalog sends exactly one getProducts request per registry row
\* whose ScriptURL is non-empty and not sentinel-prefixed, in row order, and
\* none for any other row.
C7_OneRequestPerConfiguredRow ==
  Answered =>
    /\ Len(requests) = Cardinality(ConfiguredRows)
    /\ \A i \in ConfiguredRows :
         /\ requests[Rank(i)].url = <<Cell(i, "ScriptURL"), "?action=getProducts">>
         /\ requests[Rank(i)].method = "get"

\* three rows, one of them carrying the sentinel: two endpoints are called
C7_Witness ==
  /\ Answered
  /\ Len(registry) = 3
  /\ Cardinality({ i \in 1..3 : StartsWith(Cell(i, "ScriptURL"), SENTINEL) }) = 1
  /\ Cardinality(ConfiguredRows) = 2
  /\ Len(requests) = 2

\* C8: when exactly one of the N active endpoints fails (no HTTP response, a
\* non-200 status or an unusable reply) and the others answer correctly, the
\* action answers success:true with exactly the other categories' products.
C8_OneFailureIsIsolated ==
  (/\ Answered
   /\ Len(fetched) >= 1
   /\ Cardinality({ k \in 1..Len(fetched) : fetched[k] # "ok" }) = 1)
  => /\ Answer.success = TRUE
     /\ Answer.data.products = Grouped(Len(fetched))

\* C9: with no configured row, getPublicCatalog makes no outbound request and
\* the action answers success:true with every registry row as categories and
\* no products.
C9_EmptyActiveSet ==
  (Answered /\ ConfiguredRows = {}) =>
    /\ requests = <<>>
    /\ Answer.success = TRUE
    /\ Answer.data.products = <<>>
    /\ Len(Answer.data.categories) = Len(registry)
    /\ \A i \in 1..Len(registry) : \A k \in 1..Len(Headers) :
         Answer.data.categories[i][Headers[k]] = registry[i][k]

\* rows exist, none of them configured, and the call has been answered
C9_Witness ==
  /\ Answered
  /\ Len(registry) >= 2
  /\ ConfiguredRows = {}
  /\ \E i \in 1..Len(registry) : Cell(i, "ScriptURL") = <<>>
  /\ \E i \in 1..Len(registry) : StartsWith(Cell(i, "ScriptURL"), SENTINEL)

\* C10: the products list getPublicCatalog returns is the concatenation, in
\* active-registry order, of the items of the replies that have HTTP 200,
\* success = true and an array as data, each item tagged with the NomCategorie
\* of the row whose endpoint returned it; other replies contribute nothing.
C10_MergedProducts ==
  (Answered /\ Answer.success = TRUE) =>
    Answer.data.products = Grouped(Cardinality(ConfiguredRows))

\* two endpoints answered with courses and a third reply was not usable
C10_Witness ==
  /\ Answered
  /\ Answer.success = TRUE
  /\ Len(fetched) = 3
  /\ Cardinality({ k \in 1..3 : Usable(ReplyAt(k)) }) = 2
  /\ \E k \in 1..3 : ~Usable(ReplyAt(k))
  /\ \E j, k \in 1..3 : j < k /\ fetched[j] = "ok" /\ fetched[k] = "ok"
                        /\ Cell(RowAt(j), "ScriptURL") # Cell(RowAt(k), "ScriptURL")
  /\ Len(Answer.data.products) = 3

----------------------------------------------------------------------------
(* What the claims about the session cache speak of *)

CacheKeys == {"abmcyFullCatalog", "abmcyCacheVersion", "abmcyCacheTimestamp"}

\* the cached snapshot, as an object
Snapshot == sessionStorage.abmcyFullCatalog[1].json

HasSnapshot == sessionStorage.abmcyFullCatalog # None

\* the states of the cache, by the age of the stored snapshot
IsEMPTY == ~HasSnapshot
IsFRESH == HasSnapshot /\ snapshotAge[1] < CACHE_LIFETIME
IsSTALE == HasSnapshot /\ snapshotAge[1] >= CACHE_LIFETIME
IsOlderThanLifetime == HasSnapshot /\ snapshotAge[1] > CACHE_LIFETIME

\* this step is a read that returns the cached snapshot
ReturnsSnapshot ==
  lastRead' = Some([cached |-> TRUE,
                    fetches |-> BagCardinality(inflight') - BagCardinality(inflight),
                    ret |-> Snapshot])

\* this step starts exactly one fetch, a background one, and changes no other
StartsOneRefetch ==
  inflight' = inflight (+) SetToBag({[kind |-> "background", response |-> None]})

\* this step settles fetch i without a usable answer: fetch() rejected, the
\* status was not OK, or the reply said success = false
FailsFetch(f) ==
  \/ FetchRejected(f)
  \/ FetchNotOk(f)
  \/ /\ FetchDelivered(f)
     /\ f.response[1].text.json.success = FALSE

\* this step settles fetch i with a reply that says success = true
SucceedsFetch(f) ==
  /\ FetchDelivered(f)
  /\ f.response[1].text.json.success = TRUE

\* C1: a read made while the cache holds a snapshot younger than the lifetime
\* (FRESH) starts no network request and returns the cached snapshot; this
\* covers the read that follows a successful initial fetch at age 0.
C1_FreshReadNoNetwork ==
  [][(ReadCached /\ IsFRESH) => (inflight' = inflight /\ ReturnsSnapshot)]_vars

\* C2: whenever the snapshot key is present, the version key and the
\* timestamp key are present too.
C2_SnapshotHasTimestamp ==
  HasSnapshot =>
    /\ sessionStorage.abmcyCacheVersion # None
    /\ sessionStorage.abmcyCacheTimestamp # None

C4_FailedRefetchKeepsCache ==
  [][/\ \A f \in Pending :
          (f.kind = "background" /\ FailsFetch(f)) =>
            /\ sessionStorage' = sessionStorage
            /\ lastRead' = lastRead
     /\ (/\ HasSnapshot
         /\ isCacheStale(sessionStorage.abmcyCacheTimestamp)
         /\ ~isCacheStale(sessionStorage'.abmcyCacheTimestamp))
          => \E f \in Pending : f.kind = "background" /\ SucceedsFetch(f)
     /\ (ReadCached /\ isCacheStale(sessionStorage.abmcyCacheTimestamp))
          => (ReturnsSnapshot /\ StartsOneRefetch)
    ]_vars

\* the re-fetch of the last read has settled and wrote nothing: the cache has
\* its snapshot and still no timestamp
C4_Witness ==
  /\ lastRead # None
  /\ lastRead[1].cached
  /\ lastRead[1].fetches = 1
  /\ inflight = EmptyBag
  /\ HasSnapshot
  /\ sessionStorage.abmcyCacheTimestamp = None
  /\ lastRead[1].ret = Snapshot

\* C5: a read of the EMPTY cache starts a blocking fetch and returns nothing
\* before it settles; when that fetch fails, the read returns
\* {success:false, data:{categories:[], products:[]}, error} and the storage
\* is written by nothing.
C5_FailedInitialFetch ==
  [][/\ ReadEmpty =>
          /\ lastRead' = lastRead
          /\ inflight' = inflight (+) SetToBag({[kind |-> "initial", response |-> None]})
     /\ \A f \in Pending :
          (f.kind = "initial" /\ FailsFetch(f)) =>
            /\ sessionStorage' = sessionStorage
            /\ lastRead' # None
            /\ lastRead'[1].cached = FALSE
            /\ DOMAIN lastRead'[1].ret = {"success", "data", "error"}
            /\ lastRead'[1].ret.success = FALSE
            /\ lastRead'[1].ret.data = [categories |-> <<>>, products |-> <<>>]
    ]_vars

\* a blocking read has returned the error shape and the cache is still empty
C5_Witness ==
  /\ lastRead # None
  /\ ~lastRead[1].cached
  /\ lastRead[1].ret.success = FALSE
  /\ lastRead[1].ret.data.products = <<>>
  /\ \A k \in CacheKeys : sessionStorage[k] = None
  /\ inflight = EmptyBag

----------------------------------------------------------------------------
(* The session while every fetch of the aggregator succeeds *)

\* the aggregator answers the i-th fetch with success:true
ServeOk(f) ==
  \E r \in { a \in CatalogAnswers : a.response.text.json.success } : ServeWith(f, r)

NextLive ==
  \/ ReadCached
  \/ ReadEmpty
  \/ \E f \in Pending : ServeOk(f)
  \/ \E f \in Pending : FetchDelivered(f)
  \/ Tick
  \/ CallInvalidateCache
  \/ ClockTick

\* The page keeps reading the catalogue, time passes, the aggregator answers
\* every request and the browser runs every settled fetch's continuation.
SpecLive ==
  /\ Init
  /\ [][NextLive]_vars
  /\ WF_vars(ReadCached)
  /\ WF_vars(ReadEmpty)
  /\ WF_vars(Tick)
  /\ WF_vars(\E f \in Pending : ServeOk(f))
  /\ WF_vars(\E f \in Pending : FetchDelivered(f))

Tokens == { ToString(t) : t \in 1..MaxClock }

\* the last read returned a snapshot whose cacheVersion is token v
ReadReturned(v) ==
  /\ lastRead # None
  /\ lastRead[1].ret.success = TRUE
  /\ lastRead[1].ret.cacheVersion = Some(v)

\* C6: once the aggregator's token has been bumped to v, then, unless it is
\* bumped to another value, a read of the client eventually returns a snapshot
\* whose cacheVersion is v.
C6_ClientCatchesUp ==
  \A v \in Tokens :
    (cacheVersion = Some(v)) ~> (cacheVersion # Some(v) \/ ReadReturned(v))

\* the token was bumped while the client held an older snapshot, and a later
\* read returned the snapshot of the new token
C6_Witness ==
  /\ cacheVersion = Some(ToString(MaxClock))
  /\ ReadReturned(ToString(MaxClock))
  /\ lastRead[1].cached
  /\ sessionStorage.abmcyCacheVersion = Some(ToString(MaxClock))
  /\ sessionStorage.abmcyCacheTimestamp # None

----------------------------------------------------------------------------
(* Invalidation of the aggregator's version token *)

CategoriesSheet == "Catégories"

SheetNames == {CategoriesSheet, "Feuille 2"}

\* onEdit that does not look at the name of the sheet; C23_OnlyTriggersWrite
\* fails under it
onEdit_AnySheet(sheetName, version, now) == Some(ToString(now))

\* onEdit(e) on the sheet named sheetName, the clock reading `now`: the value
\* of the script property afterwards
onEdit(sheetName, version, now) ==
  IF sheetName = CategoriesSheet THEN Some(ToString(now)) ELSE version

\* An invocation evaluates new Date().getTime() and then calls setProperty;
\* other invocations of the script may run between the two.
NewBump(via) == [via |-> via, now |-> clock]

\* GET ?action=invalidateCache arrives and reads the clock
StartInvalidateCache ==
  /\ BagCardinality(bumps) < MaxBumps
  /\ bumps' = bumps (+) SetToBag({NewBump("doGet")})
  /\ UNCHANGED <<aggVars, callVars, clientVars, courseVars, catalogCalls, handled,
                 serviceVars>>

\* the registry spreadsheet is edited on some sheet and onEdit reads the clock
StartOnEdit ==
  /\ BagCardinality(bumps) < MaxBumps
  /\ \E sheetName \in SheetNames :
       bumps' = IF sheetName = CategoriesSheet
                  THEN bumps (+) SetToBag({NewBump("onEdit")})
                  ELSE bumps
  /\ UNCHANGED <<aggVars, callVars, clientVars, courseVars, catalogCalls, handled,
                 serviceVars>>

\* the invocation b writes the script property; doGet answers its caller
SetProperty(b) ==
  /\ bumps' = bumps (-) SetToBag({b})
  /\ IF b.via = "doGet"
       THEN LET r == doGet("invalidateCache", registry, cacheVersion, b.now, <<>>) IN
            /\ cacheVersion' = r.cacheVersion
            /\ aggOut' = Some(r.response)
       ELSE /\ cacheVersion' = onEdit(CategoriesSheet, cacheVersion, b.now)
            /\ aggOut' = aggOut
  /\ UNCHANGED <<registry, clock, requests, fetched, clientVars, courseVars,
                 catalogCalls, handled, serviceVars>>

NextInvalidate ==
  \/ StartInvalidateCache
  \/ StartOnEdit
  \/ \E b \in BagToSet(bumps) : SetProperty(b)
  \/ ClockTick

SpecInvalidate == Init /\ [][NextInvalidate]_vars

\* the clock value a token was made from
TokenTime(token) == CHOOSE t \in 0..(MaxClock + 1) : ToString(t) = token

\* C11: every invalidation, through doGet or through onEdit, leaves the
\* stored token strictly later than it was before, also when two
\* invalidations read the same clock value or run concurrently.
C11_TokenStrictlyIncreases ==
  [][\A b \in BagToSet(bumps) :
       SetProperty(b) =>
         (cacheVersion = None
            \/ TokenTime(cacheVersion'[1]) > TokenTime(cacheVersion[1]))]_vars

----------------------------------------------------------------------------
(* The category service: its web app *)

CategoryActions == {"getProducts", "getCourses"}

\* GET ?action=... on the category service
CallCategory ==
  /\ \E action \in CategoryActions :
       ficheOut' = Some([action |-> action, response |-> Category_doGet(action, spreadsheet)])
  /\ UNCHANGED <<aggVars, callVars, clientVars, bumps, spreadsheet, editRun,
                 catalogCalls, handled, serviceVars>>

InitCourses ==
  /\ InitAgg(DeployedRegistry)
  /\ InitCall
  /\ InitClient
  /\ bumps = EmptyBag
  /\ spreadsheet \in Spreadsheets
  /\ ficheOut = None
  /\ editRun = None
  /\ catalogCalls = <<>>
  /\ handled = <<>>
  /\ InitServices

NextCourses == CallCategory

SpecCourses == InitCourses /\ [][NextCourses]_vars

----------------------------------------------------------------------------
(* What the claims about the course sheets speak of, read off the spreadsheet *)

\* the data rows of the category's sheet with this prefix, none if it is gone
DataRows(prefix) ==
  LET name == <<prefix>> \o CategoryName IN
  IF \E k \in 1..Len(spreadsheet) : spreadsheet[k].name = name
    THEN Tail(spreadsheet[CHOOSE k \in 1..Len(spreadsheet) :
                            spreadsheet[k].name = name].values)
    ELSE <<>>

\* the row of the sheet in which this ID stands in column `col`
RowIndex(prefix, col, id) ==
  CHOOSE k \in 1..Len(DataRows(prefix)) : DataRows(prefix)[k][col] = id

\* getProducts has been called and answered
Produced == ficheOut # None /\ ficheOut[1].action = "getProducts"

ProductsAnswer == ficheOut[1].response.text.json

\* the assembled course sheets of the answer
Fiches == ProductsAnswer.data.array

\* items[i] and items[j] stand in the order of their `field`, and in the order
\* of their rows where the fields are equal
InOrder(items, field, prefix, idField) ==
  \A i, j \in 1..Len(items) :
    /\ items[i][field] < items[j][field] => i < j
    /\ (/\ items[i][field] = items[j][field]
        /\ RowIndex(prefix, 2, items[i][idField]) < RowIndex(prefix, 2, items[j][idField]))
         => i < j

\* C12: in every assembled course sheet the modules stand in ascending
\* Ordre_Module and the chapters of every module in ascending Ordre_Chapitre;
\* modules or chapters with equal order values keep the order of their rows.
C12_OrderedModulesAndChapters ==
  Produced =>
    \A n \in 1..Len(Fiches) :
      /\ InOrder(Fiches[n].modules, "Ordre_Module", "Modules_", "ID_Module")
      /\ \A m \in 1..Len(Fiches[n].modules) :
           InOrder(Fiches[n].modules[m].chapitres, "Ordre_Chapitre",
                   "Chapitres_", "ID_Chapitre")

\* a course whose second module row has the smaller order, so that it comes
\* first, and a module with two chapters of equal order, in row order
C12_Witness ==
  /\ Produced
  /\ \E n \in 1..Len(Fiches) :
       /\ Len(Fiches[n].modules) = 2
       /\ Fiches[n].modules[1].ID_Module = "M-2"
       /\ Fiches[n].modules[1].Ordre_Module < Fiches[n].modules[2].Ordre_Module
       /\ \E m \in 1..2 :
            /\ Len(Fiches[n].modules[m].chapitres) = 2
            /\ Fiches[n].modules[m].chapitres[1].ID_Chapitre = "CH-1"
            /\ Fiches[n].modules[m].chapitres[1].Ordre_Chapitre
                 = Fiches[n].modules[m].chapitres[2].Ordre_Chapitre

\* the course IDs of the Cours_ sheet are pairwise distinct
DistinctCours ==
  \A i, j \in 1..Len(DataRows("Cours_")) :
    i # j => DataRows("Cours_")[i][1] # DataRows("Cours_")[j][1]

\* the IDs of the modules and of the chapters shown in the n-th course sheet
ModulesShown(n) ==
  { Fiches[n].modules[m].ID_Module : m \in 1..Len(Fiches[n].modules) }
ChapitresShown(n) ==
  UNION { { Fiches[n].modules[m].chapitres[c].ID_Chapitre :
              c \in 1..Len(Fiches[n].modules[m].chapitres) } :
          m \in 1..Len(Fiches[n].modules) }

\* C13: over N course rows with pairwise distinct IDs getAllCoursData returns
\* N sheets, one per row; a module stands under a course only if its ID_Cours
\* is the course's, a chapter under a module only if its ID_Module is the
\* module's, a quiz only where its ID matches; no module or chapter is shown
\* in two sheets, and a module whose ID_Cours matches no course is shown
\* nowhere.
C13_Isolation ==
  (Produced /\ DistinctCours) =>
    /\ Len(Fiches) = Len(DataRows("Cours_"))
    /\ \A n \in 1..Len(Fiches) :
         /\ Fiches[n].ID_Cours = DataRows("Cours_")[n][1]
         /\ \A m \in 1..Len(Fiches[n].modules) :
              LET module == Fiches[n].modules[m] IN
              /\ module.ID_Cours = Fiches[n].ID_Cours
              /\ \A q \in 1..Len(module.quiz) :
                   module.quiz[q].ID_Module = module.ID_Module
              /\ \A c \in 1..Len(module.chapitres) :
                   /\ module.chapitres[c].ID_Module = module.ID_Module
                   /\ \A q \in 1..Len(module.chapitres[c].quiz) :
                        module.chapitres[c].quiz[q].ID_Chapitre
                          = module.chapitres[c].ID_Chapitre
    /\ \A n1, n2 \in 1..Len(Fiches) :
         n1 # n2 => /\ ModulesShown(n1) \cap ModulesShown(n2) = {}
                    /\ ChapitresShown(n1) \cap ChapitresShown(n2) = {}
    /\ \A k \in 1..Len(DataRows("Modules_")) :
         (\A i \in 1..Len(DataRows("Cours_")) :
            DataRows("Cours_")[i][1] # DataRows("Modules_")[k][1])
         => \A n \in 1..Len(Fiches) : DataRows("Modules_")[k][2] \notin ModulesShown(n)

\* two courses, each with a module of its own that has a chapter of its own
C13_Witness ==
  /\ Produced
  /\ DistinctCours
  /\ Len(Fiches) = 2
  /\ \A n \in 1..2 :
       /\ Len(Fiches[n].modules) = 1
       /\ Len(Fiches[n].modules[1].chapitres) = 1
  /\ Fiches[1].modules[1].ID_Module # Fiches[2].modules[1].ID_Module

\* the data rows of a sheet that carry `id` in their first column
RowsOf(prefix, id) ==
  LET Carries(row) == row[1] = id IN SelectSeq(DataRows(prefix), Carries)

\* the questions of a quiz list are those of these rows, in row order
SameQuiz(quiz, rows) ==
  /\ Len(quiz) = Len(rows)
  /\ \A q \in 1..Len(rows) :
       quiz[q] = [ID_Chapitre |-> rows[q][1], Question |-> rows[q][2]]
       \/ quiz[q] = [ID_Module |-> rows[q][1], Question |-> rows[q][2]]

\* the spreadsheet holds one course C-001 with modules of order 1 and 2, two
\* chapters of order 1 and 2 in the module of order 1, and one quiz on the
\* chapter of order 2
IsExampleCourse ==
  LET cours == DataRows("Cours_")
      modules == DataRows("Modules_")
      chapitres == DataRows("Chapitres_")
      quiz == DataRows("Quiz_Chapitres_")
  IN /\ Len(cours) = 1 /\ cours[1][1] = "C-001"
     /\ Len(modules) = 2 /\ Len(chapitres) = 2 /\ Len(quiz) = 1
     /\ \A k \in 1..2 : modules[k][1] = "C-001"
     /\ { modules[k][4] : k \in 1..2 } = {1, 2}
     /\ { chapitres[k][4] : k \in 1..2 } = {1, 2}
     /\ \A k \in 1..2 : \E m \in 1..2 :
          modules[m][4] = 1 /\ chapitres[k][1] = modules[m][2]
     /\ \E k \in 1..2 : chapitres[k][4] = 2 /\ quiz[1][1] = chapitres[k][2]

\* C14: every module of an assembled sheet carries exactly the chapter rows
\* with its ID_Module and exactly the module-quiz rows with its ID_Module,
\* every chapter exactly the chapter-quiz rows with its ID_Chapitre; for the
\* example course the answer is one course with modules[0].chapitres.length
\* = 2, modules[0].chapitres[1].quiz.length = 1, modules[1].chapitres.length
\* = 0.
C14_AssemblyComplete ==
  Produced =>
    /\ \A n \in 1..Len(Fiches) : \A m \in 1..Len(Fiches[n].modules) :
         LET module == Fiches[n].modules[m]
             rows == RowsOf("Chapitres_", module.ID_Module)
         IN /\ Len(module.chapitres) = Len(rows)
            /\ \A k \in 1..Len(rows) : \E c \in 1..Len(module.chapitres) :
                 /\ module.chapitres[c].ID_Chapitre = rows[k][2]
                 /\ module.chapitres[c].ID_Module = rows[k][1]
                 /\ module.chapitres[c].Nom_Chapitre = rows[k][3]
                 /\ module.chapitres[c].Ordre_Chapitre = rows[k][4]
            /\ SameQuiz(module.quiz, RowsOf("Quiz_Modules_", module.ID_Module))
            /\ \A c \in 1..Len(module.chapitres) :
                 SameQuiz(module.chapitres[c].quiz,
                          RowsOf("Quiz_Chapitres_", module.chapitres[c].ID_Chapitre))
    /\ IsExampleCourse =>
         /\ Len(Fiches) = 1
         /\ Len(Fiches[1].modules) = 2
         /\ Len(Fiches[1].modules[1].chapitres) = 2
         /\ Len(Fiches[1].modules[1].chapitres[2].quiz) = 1
         /\ Len(Fiches[1].modules[2].chapitres) = 0

\* getProducts has answered for the example course, and its first module has
\* a quiz of its own as well
C14_Witness ==
  /\ Produced
  /\ IsExampleCourse
  /\ Len(Fiches) = 1
  /\ Len(Fiches[1].modules[1].chapitres[2].quiz) = 1
  /\ Len(Fiches[1].modules[1].quiz) = 1

\* the category's sheet with this prefix is gone
IsMissing(prefix) ==
  \A k \in 1..Len(spreadsheet) : spreadsheet[k].name # <<prefix>> \o CategoryName

\* the sheet is gone or holds its header row only
IsEmptyTable(prefix) == DataRows(prefix) = <<>>

\* C15: when one of the five sheets is missing or holds only its header, it
\* is read as no rows and getProducts still answers success:true: every
\* course row still yields its sheet, with the lists that depend on the empty
\* table empty; a course without modules has modules = [].
C15_MissingTablesReadEmpty ==
  Produced =>
    /\ ProductsAnswer.success = TRUE
    /\ Len(Fiches) = Len(DataRows("Cours_"))
    /\ \A n \in 1..Len(Fiches) :
         /\ Fiches[n].ID_Cours = DataRows("Cours_")[n][1]
         /\ RowsOf("Modules_", Fiches[n].ID_Cours) = <<>> => Fiches[n].modules = <<>>
         /\ IsEmptyTable("Modules_") => Fiches[n].modules = <<>>
         /\ \A m \in 1..Len(Fiches[n].modules) :
              /\ IsEmptyTable("Chapitres_") => Fiches[n].modules[m].chapitres = <<>>
              /\ IsEmptyTable("Quiz_Modules_") => Fiches[n].modules[m].quiz = <<>>
              /\ \A c \in 1..Len(Fiches[n].modules[m].chapitres) :
                   IsEmptyTable("Quiz_Chapitres_")
                     => Fiches[n].modules[m].chapitres[c].quiz = <<>>

\* the Modules_ sheet is gone and the Quiz_Modules_ sheet holds its header
\* only: both courses are returned, without modules
C15_Witness ==
  /\ Produced
  /\ IsMissing("Modules_")
  /\ ~IsMissing("Quiz_Modules_") /\ IsEmptyTable("Quiz_Modules_")
  /\ ~IsEmptyTable("Chapitres_")
  /\ Len(Fiches) = 2
  /\ \A n \in 1..2 : Fiches[n].modules = <<>>

----------------------------------------------------------------------------
(* The aggregator in front of a category service *)

\* the spreadsheet after setupCourseSheets and seedDefaultCourseData
SeededSpreadsheet ==
  Workbook(Some(<< CoursRow("C-001") >>),
           Some(<< ModuleRow(1, "C-001", 1), ModuleRow(2, "C-001", 2) >>),
           Some(<< ChapitreRow(1, "M-1", 1), ChapitreRow(2, "M-1", 2),
                   ChapitreRow(3, "M-2", 3) >>),
           Some(<< QuizRow(1, "CH-3") >>),
           Some(<<>>))

\* what a request of the aggregator can meet at the category service
LiveOutcomes == {"ok", "http500"}

\* UrlFetchApp.fetchAll when the endpoints are the category service: a
\* request that gets through is answered by its doGet from the spreadsheet
fetchAllLive(reqs, net) ==
  IF \E i \in 1..Len(reqs) : net[i] = "netError"
    THEN [threw |-> TRUE, error |-> "Exception: Address unavailable"]
    ELSE [threw |-> FALSE,
          value |-> [i \in 1..Len(reqs) |->
                       IF net[i] = "ok"
                         THEN [code |-> 200,
                               text |-> Category_doGet("getProducts", spreadsheet).text]
                         ELSE HttpReply(reqs[i].url[1], net[i])]]

\* GET ?action=getPublicCatalog on the aggregator
CallPublicCatalog ==
  /\ \E net \in NetsOver(registry, LiveOutcomes) :
       LET FetchAll(reqs) == fetchAllLive(reqs, net)
           r == doGetWith("getPublicCatalog", registry, cacheVersion, clock, FetchAll)
           call == [net |-> net, token |-> cacheVersion,
                    answer |-> r.response.text.json]
       IN /\ catalogCalls' = IF catalogCalls = <<>> THEN <<call>>
                              ELSE <<catalogCalls[Len(catalogCalls)], call>>
          /\ cacheVersion' = r.cacheVersion
  /\ UNCHANGED <<registry, clock, callVars, clientVars, bumps, courseVars,
                 handled, serviceVars>>

\* the last data row of a sheet of the category spreadsheet is deleted
EditSheet ==
  /\ \E k \in 1..Len(spreadsheet) :
       /\ Len(spreadsheet[k].values) >= 2
       /\ spreadsheet' =
            [spreadsheet EXCEPT ![k].values = SubSeq(@, 1, Len(@) - 1)]
  /\ catalogCalls' = <<>>
  /\ UNCHANGED <<aggVars, callVars, clientVars, bumps, ficheOut, editRun,
                 handled, serviceVars>>

\* the last row of the registry sheet is deleted
EditRegistry ==
  /\ registry # <<>>
  /\ registry' = SubSeq(registry, 1, Len(registry) - 1)
  /\ catalogCalls' = <<>>
  /\ UNCHANGED <<cacheVersion, clock, callVars, clientVars, bumps, courseVars,
                 handled, serviceVars>>

InitIdem ==
  /\ InitAgg(DeployedRegistry)
  /\ InitCall
  /\ InitClient
  /\ bumps = EmptyBag
  /\ spreadsheet = SeededSpreadsheet
  /\ ficheOut = None
  /\ editRun = None
  /\ catalogCalls = <<>>
  /\ handled = <<>>
  /\ InitServices

NextIdem ==
  \/ CallPublicCatalog
  \/ EditSheet
  \/ EditRegistry
  \/ CallInvalidateCache
  \/ ClockTick

SpecIdem == InitIdem /\ [][NextIdem]_vars

\* two calls have been answered with no change of the data between them
TwoCalls == Len(catalogCalls) = 2

----------------------------------------------------------------------------
(* The orders service: enregistrerCommande *)

\* the data of a request: a well-formed order, or none at all
OrderData == {None, Some([idClient |-> "CLT-1", produits |-> "C-001", total |-> 75000])}

\* lines 63-73: the row is appended, unless data is undefined or the sheet
\* Commandes is missing, which throws a TypeError
AppendCommande(sheets, data, now) ==
  IF data = None
    THEN [threw |-> TRUE, sheets |-> sheets,
          error |-> "TypeError: Cannot read properties of undefined"]
  ELSE IF sheets.Commandes = None
    THEN [threw |-> TRUE, sheets |-> sheets,
          error |-> "TypeError: Cannot read properties of null"]
  ELSE [threw |-> FALSE,
        sheets |-> [sheets EXCEPT
                      !.Commandes = Some(Append(@[1],
                         [id |-> <<"CMD-", now>>, idClient |-> data[1].idClient,
                          statut |-> "En attente"]))],
        id |-> <<"CMD-", now>>]

\* logAction(action, details): a failure of the logging is swallowed
logAction(sheets, action) ==
  IF sheets.Logs = None THEN sheets
  ELSE [sheets EXCEPT !.Logs = Some(Append(@[1], action))]

\* try { ... } without the finally: an exception leaves the function at once;
\* C17_OrderCriticalSection fails under it
TryFinally_NoFinally(threw) == IF threw THEN "idle" ELSE "logAction"

\* try { ... } finally { lock.releaseLock() }: where control goes after the
\* append
TryFinally(threw) == IF threw THEN "finally" ELSE "logAction"

\* a POST with action enregistrerCommande arrives: lock.waitLock is called
CallEnregistrerCommande(i) ==
  /\ orderCalls[i].pc = "idle"
  /\ orderSheets.Commandes # None => Len(orderSheets.Commandes[1]) < MaxOrders
  /\ \E data \in OrderData :
       orderCalls' = [orderCalls EXCEPT ![i] = [pc |-> "waitLock", data |-> data]]
  /\ UNCHANGED <<catalogSide, accountVars, shopVars, scriptLock, orderSheets>>

\* waitLock returns with the lock
AcquireLock(i) ==
  /\ orderCalls[i].pc = "waitLock"
  /\ scriptLock = None
  /\ scriptLock' = Some(i)
  /\ orderCalls' = [orderCalls EXCEPT ![i].pc = "try"]
  /\ UNCHANGED <<catalogSide, accountVars, shopVars, orderSheets>>

\* waitLock gives up after 30 s and throws: the function is left without the
\* lock
LockTimeout(i) ==
  /\ orderCalls[i].pc = "waitLock"
  /\ scriptLock # None
  /\ orderCalls' = [orderCalls EXCEPT ![i] = [pc |-> "idle"]]
  /\ UNCHANGED <<catalogSide, accountVars, shopVars, scriptLock, orderSheets>>

\* the try block up to sheet.appendRow
AppendRow(i) ==
  /\ orderCalls[i].pc = "try"
  /\ LET r == AppendCommande(orderSheets, orderCalls[i].data, clock) IN
     /\ orderSheets' = r.sheets
     /\ orderCalls' = [orderCalls EXCEPT ![i].pc = TryFinally(r.threw)]
  /\ UNCHANGED <<catalogSide, accountVars, shopVars, scriptLock>>

\* logAction('enregistrerCommande', ...) and the return statement
LogCommande(i) ==
  /\ orderCalls[i].pc = "logAction"
  /\ orderSheets' = logAction(orderSheets, "enregistrerCommande")
  /\ orderCalls' = [orderCalls EXCEPT ![i].pc = "finally"]
  /\ UNCHANGED <<catalogSide, accountVars, shopVars, scriptLock>>

\* finally { lock.releaseLock() }
ReleaseLock(i) ==
  /\ orderCalls[i].pc = "finally"
  /\ scriptLock' = IF scriptLock = Some(i) THEN None ELSE scriptLock
  /\ orderCalls' = [orderCalls EXCEPT ![i] = [pc |-> "idle"]]
  /\ UNCHANGED <<catalogSide, accountVars, shopVars, orderSheets>>

InitOrderSheets ==
  /\ InitAgg(DeployedRegistry)
  /\ InitCall
  /\ InitClient
  /\ bumps = EmptyBag
  /\ spreadsheet = SheetStructures
  /\ ficheOut = None
  /\ editRun = None
  /\ catalogCalls = <<>>
  /\ handled = <<>>
  /\ InitAccounts
  /\ InitShop
  /\ scriptLock = None
  /\ orderSheets \in [Commandes : {None, Some(<<>>)}, Logs : {None, Some(<<>>)}]
  /\ orderCalls = [i \in 1..MaxOrderCalls |-> [pc |-> "idle"]]

NextOrders ==
  \/ \E i \in 1..MaxOrderCalls : CallEnregistrerCommande(i)
  \/ \E i \in 1..MaxOrderCalls : AcquireLock(i)
  \/ \E i \in 1..MaxOrderCalls : LockTimeout(i)
  \/ \E i \in 1..MaxOrderCalls : AppendRow(i)
  \/ \E i \in 1..MaxOrderCalls : LogCommande(i)
  \/ \E i \in 1..MaxOrderCalls : ReleaseLock(i)
  \/ ClockTick

SpecOrders == InitOrderSheets /\ [][NextOrders]_vars

\* the invocations between acquiring the lock and releasing it
InCriticalSection ==
  { i \in 1..MaxOrderCalls : orderCalls[i].pc \in {"try", "logAction", "finally"} }

\* C17: at most one enregistrerCommande invocation is between acquiring the
\* script lock and releasing it, it is the holder of the lock, rows are
\* appended by the holder only, and an invocation that has left the function,
\* by return or by exception, holds the lock no more.
C17_OrderCriticalSection ==
  [][/\ Cardinality(InCriticalSection') <= 1
     /\ \A i \in 1..MaxOrderCalls :
          /\ i \in InCriticalSection' => scriptLock' = Some(i)
          /\ orderCalls'[i].pc \in {"idle", "waitLock"} => scriptLock' # Some(i)
          /\ (AppendRow(i) /\ orderSheets' # orderSheets) => scriptLock = Some(i)
    ]_vars

\* an append has thrown: the invocation stands in the finally block holding
\* the lock, while another waits for the lock
C17_Witness ==
  \E i, j \in 1..MaxOrderCalls :
    /\ orderCalls[i].pc = "finally"
    /\ orderCalls[i].data = None
    /\ scriptLock = Some(i)
    /\ orderCalls[j].pc = "waitLock"

----------------------------------------------------------------------------
(* Accounts service: doPost and its handlers *)

\* String.prototype.toLowerCase, letter by letter
LowerCase(c) ==
  CASE c = "C" -> "c"
    [] c = "N" -> "n"
    [] c = "T" -> "t"
    [] OTHER -> c

toLowerCase(s) == [k \in 1..Len(s) |-> LowerCase(s[k])]

\* the emails a request carries: the one of a test user, a new one, and each
\* of them in capitals
Emails == { EmailClient, <<"C", "@", "T">>, <<"n", "@", "t">>, <<"N", "@", "t">> }

TypeErrorUndefined == "TypeError: Cannot read properties of undefined"
TypeErrorNull == "TypeError: Cannot read properties of null"

\* logError(context, error): an ERROR row in the sheet Logs; a failure of the
\* logging is swallowed
logError(sheets, error) ==
  IF sheets.Logs = None THEN sheets
  ELSE [sheets EXCEPT !.Logs = Some(Append(@[1], [action |-> "ERROR", message |-> error]))]

\* what a handler hands back: the JSON response, the sheets it leaves, and
\* the exception it has caught on the way, if any
Handled(response, sheets, caught) ==
  [threw |-> FALSE, value |-> response, sheets |-> sheets, caught |-> caught]

\* catch (error) { logError(..., error); return { success: false, error: error.message } }
CatchAndLog(sheets, error) ==
  Handled([success |-> FALSE, error |-> error], logError(sheets, error), Some(error))

\* a comparison of emails that regards case; C20_SequentialUniqueness fails
\* under it
SameEmail_Exact(a, b) == a = b

\* existingEmail.toLowerCase() === email.toLowerCase()
SameEmail(a, b) == toLowerCase(a) = toLowerCase(b)

\* creerCompteClient, lines 149-159: the column Email is read together with
\* the blank row below the last one, and compared without regard to case.
\* The result is "absent", "exists" or the exception thrown.
emailExists(data, sheets) ==
  IF sheets.Utilisateurs = None THEN TypeErrorNull
  ELSE LET emailColumnValues ==
             [k \in 1..Len(sheets.Utilisateurs[1]) |-> sheets.Utilisateurs[1][k].Email]
               \o << <<>> >> IN
       IF ~Has(data, "email") THEN TypeErrorUndefined
       ELSE IF \E k \in 1..Len(emailColumnValues) :
                  SameEmail(emailColumnValues[k], data.email)
              THEN "exists"
              ELSE "absent"

\* appendRow with a check of its own that the email is still absent;
\* C19_CheckThenInsertRace fails under it
insertCompte_Unique(data, sheets, now) ==
  IF emailExists(data, sheets) = "absent"
    THEN LET idClient == <<"CLT-", now>> IN
         Handled([success |-> TRUE, id |-> idClient],
                 logAction([sheets EXCEPT !.Utilisateurs =
                     Some(Append(@[1], UserRow(idClient, data.email, data.motDePasse, "Client")))],
                   [action |-> "creerCompteClient", message |-> idClient]),
                 None)
    ELSE Handled([success |-> FALSE, error |-> "Un compte avec cet email existe déjà."],
                 sheets, None)

\* creerCompteClient, lines 161-170: the row is appended, the creation is
\* logged, the identifier is returned
insertCompte(data, sheets, now) ==
  LET idClient == <<"CLT-", now>> IN
  Handled([success |-> TRUE, id |-> idClient],
          logAction([sheets EXCEPT !.Utilisateurs =
              Some(Append(@[1], UserRow(idClient, data.email, data.motDePasse, "Client")))],
            [action |-> "creerCompteClient", message |-> idClient]),
          None)

\* creerCompteClient(data): the destructuring of data stands before the try
creerCompteClient(data, sheets, now) ==
  IF data = None THEN [threw |-> TRUE, error |-> TypeErrorUndefined]
  ELSE LET found == emailExists(data[1], sheets) IN
       CASE found = "exists" ->
              Handled([success |-> FALSE, error |-> "Un compte avec cet email existe déjà."],
                      sheets, None)
         [] found = "absent" -> insertCompte(data[1], sheets, now)
         [] OTHER -> CatchAndLog(sheets, found)

\* connecterClient(data)
connecterClient(data, sheets) ==
  IF sheets.Utilisateurs = None THEN CatchAndLog(sheets, TypeErrorNull)
  ELSE LET usersData == sheets.Utilisateurs[1] IN
       IF usersData = <<>>
         THEN Handled([success |-> FALSE, error |-> "Email ou mot de passe incorrect."],
                      sheets, None)
       ELSE IF data = None THEN CatchAndLog(sheets, TypeErrorUndefined)
       ELSE LET found == { k \in 1..Len(usersData) :
                             Has(data[1], "email") /\ usersData[k].Email = data[1].email } IN
            IF found = {}
              THEN Handled([success |-> FALSE, error |-> "Email ou mot de passe incorrect."],
                           sheets, None)
            ELSE LET userRow == usersData[CHOOSE k \in found : \A l \in found : k <= l]
                     motDePasse == IF Has(data[1], "motDePasse")
                                     THEN data[1].motDePasse ELSE "undefined" IN
                 IF hashPassword(motDePasse, userRow.Salt).passwordHash # userRow.PasswordHash
                   THEN Handled([success |-> FALSE, error |-> "Email ou mot de passe incorrect."],
                                logAction(sheets, [action |-> "connecterClient", message |-> FALSE]),
                                None)
                   ELSE Handled([success |-> TRUE,
                                 user |-> [IDClient |-> userRow.IDClient, Email |-> userRow.Email,
                                           Role |-> userRow.Role, Bio |-> userRow.Bio]],
                                logAction(sheets, [action |-> "connecterClient", message |-> TRUE]),
                                None)

\* updateProfile(data)
updateProfile(data, sheets) ==
  IF data = None \/ ~Has(data[1], "userId")
    THEN CatchAndLog(sheets, "ID utilisateur manquant pour la mise à jour.")
  ELSE IF sheets.Utilisateurs = None THEN CatchAndLog(sheets, TypeErrorNull)
  ELSE LET allUsers == sheets.Utilisateurs[1]
           found == { k \in 1..Len(allUsers) : allUsers[k].IDClient = data[1].userId } IN
       IF found = {} THEN CatchAndLog(sheets, "Utilisateur non trouvé.")
       ELSE LET rowIndex == CHOOSE k \in found : \A l \in found : k <= l IN
            Handled([success |-> TRUE, message |-> "Profil mis à jour."],
                    IF Has(data[1], "bio")
                      THEN [sheets EXCEPT !.Utilisateurs[1][rowIndex].Bio = data[1].bio]
                      ELSE sheets,
                    None)

\* logClientEvent(data): its catch block answers without logError
logClientEvent(data, sheets) ==
  IF data = None
    THEN Handled([success |-> FALSE, error |-> TypeErrorUndefined], sheets,
                 Some(TypeErrorUndefined))
  ELSE IF sheets.Logs = None
    THEN Handled([success |-> FALSE, error |-> TypeErrorNull], sheets, Some(TypeErrorNull))
  ELSE Handled([success |-> TRUE],
               [sheets EXCEPT !.Logs = Some(Append(@[1],
                  [action |-> "FRONT-END", message |-> data[1].message]))],
               None)

AccountActions ==
  {"creerCompteClient", "connecterClient", "updateProfile", "logClientEvent"}

\* the data a request carries for an action
DataOf(action) ==
  CASE action = "creerCompteClient" ->
         {[nom |-> "Awa"]} \cup
         {[nom |-> "Awa", email |-> m, motDePasse |-> "pw"] : m \in Emails}
    [] action = "connecterClient" ->
         {[email |-> EmailClient, motDePasse |-> w] : w \in {"password123", "pw"}} \cup
         {[email |-> <<"n", "@", "t">>, motDePasse |-> "pw"]}
    [] action = "updateProfile" ->
         {[bio |-> "dev"]} \cup {[userId |-> u, bio |-> "dev"] : u \in {"CLT-TEST-001", "CLT-0"}}
    [] action = "logClientEvent" -> {[type |-> "ERROR", message |-> "clic"]}
    [] OTHER -> {[nom |-> "Awa"]}

\* the event objects of a POST: no body, an empty body, a body that is not
\* JSON, and JSON requests without action, with an unknown action, and with
\* each known action, with and without data
AccountRequests ==
  {[postData |-> None], [postData |-> Some([contents |-> None])],
   [postData |-> Some([contents |-> Some([raw |-> "<html>"])])]} \cup
  {[postData |-> Some([contents |-> Some([json |-> request])])] :
     request \in UNION { {[data |-> None]} \cup {[data |-> Some(d)] : d \in DataOf("none")},
                         UNION { {[action |-> a, data |-> None]} \cup
                                 {[action |-> a, data |-> Some(d)] : d \in DataOf(a)} :
                                 a \in AccountActions \cup {"supprimerCompte"} } } }

\* the catch block of doPost: logError, then the answer "Erreur serveur: ..."
CatchInDoPost(sheets, error) ==
  Handled([success |-> FALSE, error |-> "Erreur serveur: " \o error],
          logError(sheets, error), Some(error))

\* doPost(e) of the accounts service
Account_doPost(e, sheets, now) ==
  IF e.postData = None \/ e.postData[1].contents = None
    THEN CatchInDoPost(sheets, "Requête POST invalide ou vide.")
  ELSE LET parsed == JSONparse(e.postData[1].contents[1]) IN
    IF parsed.threw THEN CatchInDoPost(sheets, parsed.error)
    ELSE LET request == parsed.value IN
      IF ~Has(request, "action")
        THEN Handled([success |-> FALSE, error |-> "Action non spécifiée."], sheets, None)
      ELSE LET action == request.action
               data == request.data IN
        CASE action = "creerCompteClient" ->
               LET r == creerCompteClient(data, sheets, now) IN
               IF r.threw THEN CatchInDoPost(sheets, r.error) ELSE r
          [] action = "connecterClient" -> connecterClient(data, sheets)
          [] action = "updateProfile" -> updateProfile(data, sheets)
          [] action = "logClientEvent" -> logClientEvent(data, sheets)
          [] OTHER ->
               Handled([success |-> FALSE, error |-> "Action non reconnue: " \o action],
                       logAction(sheets, [action |-> "doPost", message |-> action]), None)

----------------------------------------------------------------------------
(* Accounts service: requests handled one after the other *)

Users == IF accountSheets.Utilisateurs = None THEN <<>> ELSE accountSheets.Utilisateurs[1]

AccountLogs == IF accountSheets.Logs = None THEN <<>> ELSE accountSheets.Logs[1]

\* the sheets stay within the bounds
WithinSheets(sheets) ==
  /\ sheets.Utilisateurs # None => Len(sheets.Utilisateurs[1]) <= Len(TestUsers) + MaxUsers
  /\ sheets.Logs # None => Len(sheets.Logs[1]) <= MaxLogs

\* a POST is handled from its arrival to its response while no other
\* invocation is under way
AccountPost(i, e) ==
  /\ \A j \in 1..MaxAccountCalls : accountCalls[j].pc = "idle"
  /\ LET r == Account_doPost(e, accountSheets, clock) IN
       /\ WithinSheets(r.sheets)
       /\ accountSheets' = r.sheets
       /\ accountCalls' = [j \in 1..MaxAccountCalls |->
                             IF j = i
                               THEN [pc |-> "idle", e |-> e, before |-> accountSheets,
                                     response |-> r.value, caught |-> r.caught]
                               ELSE [pc |-> "idle"]]
  /\ UNCHANGED <<catalogSide, orderVars, shopVars>>

InitAccountSheets ==
  /\ InitAgg(DeployedRegistry)
  /\ InitCall
  /\ InitClient
  /\ bumps = EmptyBag
  /\ spreadsheet = SheetStructures
  /\ ficheOut = None
  /\ editRun = None
  /\ catalogCalls = <<>>
  /\ handled = <<>>
  /\ InitOrders
  /\ InitShop
  /\ accountSheets \in [Utilisateurs : {None, Some(TestUsers)}, Logs : {None, Some(<<>>)}]
  /\ accountCalls = [i \in 1..MaxAccountCalls |-> [pc |-> "idle"]]

NextAccounts ==
  \/ \E i \in 1..MaxAccountCalls, e \in AccountRequests : AccountPost(i, e)
  \/ ClockTick

SpecAccounts == InitAccountSheets /\ [][NextAccounts]_vars

\* the invocations that have handled a request
AnsweredPosts == { i \in 1..MaxAccountCalls : Has(accountCalls[i], "response") }

\* the request has no body, a body that is not JSON, no action, an unknown
\* action, or no data
IsFailingRequest(e) ==
  \/ e.postData = None
  \/ e.postData[1].contents = None
  \/ JSONparse(e.postData[1].contents[1]).threw
  \/ LET request == JSONparse(e.postData[1].contents[1]).value IN
       \/ ~Has(request, "action")
       \/ request.action \notin AccountActions
       \/ request.data = None

\* C18: every request of the accounts service with no body, an unparsable
\* body, a missing or unknown action or no data is answered
\* {success: false, error: <message>}, and every exception thrown while a
\* request is handled is answered so and stands as the new last row of the
\* sheet Logs whenever that sheet exists.
C18_DoPostLogsEveryException ==
  \A i \in AnsweredPosts :
    LET call == accountCalls[i] IN
    /\ IsFailingRequest(call.e) =>
         ~call.response.success /\ Has(call.response, "error")
    /\ call.caught # None =>
         /\ ~call.response.success /\ Has(call.response, "error")
         /\ call.before.Logs # None =>
              /\ Len(AccountLogs) = Len(call.before.Logs[1]) + 1
              /\ AccountLogs[Len(AccountLogs)] = [action |-> "ERROR", message |-> call.caught[1]]

\* the invocations that have answered a creerCompteClient request carrying an
\* email
CreerCalls ==
  { i \in AnsweredPosts :
      LET e == accountCalls[i].e IN
      /\ e.postData # None
      /\ e.postData[1].contents # None
      /\ Has(e.postData[1].contents[1], "json")
      /\ LET request == e.postData[1].contents[1].json IN
           /\ Has(request, "action")
           /\ request.action = "creerCompteClient"
           /\ request.data # None
           /\ Has(request.data[1], "email") }

EmailOfCall(i) == accountCalls[i].e.postData[1].contents[1].json.data[1].email

\* the rows of Utilisateurs, before the call, whose Email is the email of the
\* call up to letter case
RowsWithEmailBefore(i) ==
  IF accountCalls[i].before.Utilisateurs = None THEN {}
  ELSE { k \in 1..Len(accountCalls[i].before.Utilisateurs[1]) :
           toLowerCase(accountCalls[i].before.Utilisateurs[1][k].Email)
             = toLowerCase(EmailOfCall(i)) }

\* C20: when the creerCompteClient calls do not overlap, a call whose email
\* is, up to letter case, the Email of a row of Utilisateurs is answered
\* {success: false} and leaves Utilisateurs as it was, and no two rows of
\* Utilisateurs ever hold the same email up to letter case.
C20_SequentialUniqueness ==
  /\ \A i \in CreerCalls :
       RowsWithEmailBefore(i) # {} =>
         /\ ~accountCalls[i].response.success
         /\ accountSheets.Utilisateurs = accountCalls[i].before.Utilisateurs
  /\ \A k, l \in 1..Len(Users) :
       toLowerCase(Users[k].Email) = toLowerCase(Users[l].Email) => k = l

\* an account has been created, and a later call with the same email in
\* another letter case has been refused
C20_Witness ==
  \E i \in CreerCalls :
    /\ Len(Users) > Len(TestUsers)
    /\ Users[Len(Users)].Email # EmailOfCall(i)
    /\ toLowerCase(Users[Len(Users)].Email) = toLowerCase(EmailOfCall(i))
    /\ ~accountCalls[i].response.success
    /\ accountSheets.Utilisateurs = accountCalls[i].before.Utilisateurs

----------------------------------------------------------------------------
(* Accounts service: concurrent creerCompteClient invocations *)

\* the data of the creerCompteClient requests that carry an email
CompteData == { d \in DataOf("creerCompteClient") : Has(d, "email") }

\* invocation i runs creerCompteClient up to the existence check, lines
\* 147-159: it is refused, or fails, or goes on to the append
CheckEmail(i, data) ==
  /\ accountCalls[i].pc = "idle"
  /\ LET found == emailExists(data, accountSheets) IN
       CASE found = "absent" ->
              /\ accountCalls' = [accountCalls EXCEPT ![i] = [pc |-> "insert", data |-> data]]
              /\ UNCHANGED accountSheets
         [] found = "exists" ->
              /\ accountCalls' = [accountCalls EXCEPT ![i] =
                   [pc |-> "idle", data |-> data,
                    response |-> [success |-> FALSE,
                                  error |-> "Un compte avec cet email existe déjà."]]]
              /\ UNCHANGED accountSheets
         [] OTHER ->
              /\ accountCalls' = [accountCalls EXCEPT ![i] =
                   [pc |-> "idle", data |-> data,
                    response |-> CatchAndLog(accountSheets, found).value]]
              /\ accountSheets' = CatchAndLog(accountSheets, found).sheets
              /\ WithinSheets(accountSheets')
  /\ UNCHANGED <<catalogSide, orderVars, shopVars>>

\* invocation i, past the check, runs lines 161-170: appendRow, logAction and
\* the response
InsertRow(i) ==
  /\ accountCalls[i].pc = "insert"
  /\ LET r == insertCompte(accountCalls[i].data, accountSheets, clock) IN
       /\ WithinSheets(r.sheets)
       /\ accountSheets' = r.sheets
       /\ accountCalls' = [accountCalls EXCEPT ![i] =
            [pc |-> "idle", data |-> accountCalls[i].data, response |-> r.value]]
  /\ UNCHANGED <<catalogSide, orderVars, shopVars>>

NextAccountsRace ==
  \/ \E i \in 1..MaxAccountCalls, data \in CompteData : CheckEmail(i, data)
  \/ \E i \in 1..MaxAccountCalls : InsertRow(i)
  \/ ClockTick

SpecAccountsRace == InitAccountSheets /\ [][NextAccountsRace]_vars

\* C19: account creation is a check followed by an insert with nothing in
\* between to hold other invocations back: an invocation may pass the check
\* while another stands between its check and its insert, and an invocation
\* past the check appends its row and answers success whatever Utilisateurs
\* holds by then, also a row with its own email.
C19_CheckThenInsertRace ==
  [][\A i \in 1..MaxAccountCalls :
       InsertRow(i) =>
         /\ Len(Users') = Len(Users) + 1
         /\ Users'[Len(Users')].Email = accountCalls[i].data.email
         /\ accountCalls'[i].response.success
    ]_vars

\* two invocations have both answered success for one email, and two rows of
\* Utilisateurs hold it
C19_Witness ==
  \E i, j \in 1..MaxAccountCalls, k, l \in 1..Len(Users) :
    /\ i # j /\ k # l
    /\ Has(accountCalls[i], "response") /\ accountCalls[i].response.success
    /\ Has(accountCalls[j], "response") /\ accountCalls[j].response.success
    /\ accountCalls[i].data.email = accountCalls[j].data.email
    /\ Users[k].Email = accountCalls[i].data.email
    /\ Users[l].Email = accountCalls[i].data.email

----------------------------------------------------------------------------
(* The staleness boundary of the session cache *)

\* the age the code computes, Date.now() - parseInt(cacheTimestamp)
StoredAge == sessionStorage.abmcyCacheTimestamp[1]

HasTimestamp == sessionStorage.abmcyCacheTimestamp # None

----------------------------------------------------------------------------
(* The category service notifying the aggregator of an edit *)

\* what UrlFetchApp.fetch(CENTRAL_ADMIN_API_URL + "?action=invalidateCache")
\* can meet: the aggregator runs its doGet, the platform answers with an
\* error status, or the address cannot be reached
NotifyOutcomes == {"ok", "http500", "netError"}

\* invalidateGlobalCache(): one UrlFetchApp.fetch with muteHttpExceptions and
\* no try around it; an error status comes back as a response, a request that
\* gets no HTTP response makes fetch throw
invalidateGlobalCache(outcome) ==
  [threw |-> outcome = "netError", delivered |-> outcome = "ok", fetches |-> 1]

\* the last data row of a sheet of the category spreadsheet is deleted by
\* hand; the onEdit trigger of the category service is due
EditCategory ==
  /\ editRun # None => editRun[1].pc = "done"
  /\ \E k \in 1..Len(spreadsheet) :
       /\ Len(spreadsheet[k].values) >= 2
       /\ spreadsheet' =
            [spreadsheet EXCEPT ![k].values = SubSeq(@, 1, Len(@) - 1)]
  /\ editRun' = Some([pc |-> "due"])
  /\ UNCHANGED <<aggVars, callVars, clientVars, bumps, ficheOut, catalogCalls, handled,
                 serviceVars>>

\* onEdit(e) of the category service: invalidateGlobalCache() and nothing
\* else; when the request is delivered the aggregator's doGet writes the token
RunOnEdit ==
  /\ editRun # None /\ editRun[1].pc = "due"
  /\ \E outcome \in NotifyOutcomes :
       LET r == invalidateGlobalCache(outcome) IN
       /\ cacheVersion' =
            IF r.delivered
              THEN doGet("invalidateCache", registry, cacheVersion, clock, <<>>).cacheVersion
              ELSE cacheVersion
       /\ editRun' = Some([pc |-> "done", outcome |-> outcome, raised |-> r.threw,
                           fetches |-> r.fetches, token |-> cacheVersion'])
  /\ UNCHANGED <<registry, clock, callVars, clientVars, bumps, spreadsheet, ficheOut,
                 catalogCalls, handled, serviceVars>>

\* GET ?action=getPublicCatalog on the aggregator, up to the return of
\* getPublicCatalog(): the category endpoints have been read; `fetched` holds
\* their responses
FetchCatalog ==
  /\ aggOut = None /\ requests = <<>>
  /\ \E net \in NetsOver(registry, LiveOutcomes) :
       LET FetchAll(reqs) == fetchAllLive(reqs, net)
           r == doGetWith("getPublicCatalog", registry, cacheVersion, clock, FetchAll)
       IN /\ requests' = r.sent
          /\ fetched' = fetchAllLive(r.sent, net)
  /\ UNCHANGED <<aggVars, aggOut, clientVars, otherVars>>

\* the same invocation reads the script property 'cacheVersion' and answers
RespondCatalog ==
  /\ aggOut = None /\ requests # <<>>
  /\ LET Fetched(reqs) == fetched
         r == doGetWith("getPublicCatalog", registry, cacheVersion, clock, Fetched)
     IN aggOut' = Some(r.response)
  /\ UNCHANGED <<aggVars, requests, fetched, clientVars, otherVars>>

NextNotify ==
  \/ EditCategory
  \/ RunOnEdit
  \/ FetchCatalog
  \/ RespondCatalog
  \/ TakeResponse
  \/ ClockTick

SpecNotify == InitIdem /\ [][NextNotify]_vars

\* the trigger of the last edit has run and its request failed
NotifyFailed ==
  editRun # None /\ editRun[1].pc = "done" /\ editRun[1].outcome # "ok"

\* C22: when the request of invalidateGlobalCache fails, by an error status or
\* an unreachable aggregator, the onEdit trigger of the category service ends
\* without raising, has made its one request and no other, and the token of
\* the aggregator is what it was before, the edit of the data standing.
C22_FireAndForget ==
  [][(RunOnEdit /\ NotifyFailed') =>
       /\ ~editRun'[1].raised
       /\ editRun'[1].fetches = 1
       /\ cacheVersion' = cacheVersion
       /\ spreadsheet' = spreadsheet
    ]_vars

\* the products the aggregator returns when every category endpoint answers
\* from the spreadsheet as it stands
CurrentProducts ==
  LET FetchAll(reqs) ==
        fetchAllLive(reqs, [i \in 1..Len(reqs) |-> "ok"])
  IN getPublicCatalogWith(registry, FetchAll).value.products

\* every category endpoint has answered the fan-out of the pending call
AllAnswered ==
  /\ ~fetched.threw
  /\ \A i \in 1..Len(fetched.value) : fetched.value[i].code = 200

\* C26: a getPublicCatalog response that carries the token written by the
\* invalidation of the last edit of the category data has the products of
\* the data after that edit.
C26_TokenDataConsistency ==
  [][(/\ RespondCatalog
      /\ AllAnswered
      /\ editRun # None /\ editRun[1].pc = "done" /\ editRun[1].outcome = "ok"
      /\ aggOut'[1].text.json.cacheVersion = editRun[1].token)
       => aggOut'[1].text.json.data.products = CurrentProducts
    ]_vars

----------------------------------------------------------------------------
(* The aggregator's handlers, run one after the other *)

\* e.parameter.action of a GET; "ping" stands for any other value
AggregatorActions == {"invalidateCache", "getCacheVersion", "getPublicCatalog", "ping"}

\* the history after the run `run`
Remember(run) == IF handled = <<>> THEN <<run>> ELSE <<handled[Len(handled)], run>>

\* a cell of the sheet sheetName of the registry spreadsheet is edited and
\* onEdit(e) runs
RegistryEdited ==
  /\ \E sheetName \in SheetNames :
       /\ cacheVersion' = onEdit(sheetName, cacheVersion, clock)
       /\ handled' = Remember([handler |-> "onEdit", on |-> sheetName, now |-> clock,
                               before |-> cacheVersion, after |-> cacheVersion',
                               sent |-> <<>>])
  /\ UNCHANGED <<registry, clock, callVars, clientVars, bumps, courseVars,
                 catalogCalls, serviceVars>>

\* GET ?action=... on the aggregator, from its arrival to its response
AggregatorGet ==
  /\ \E action \in AggregatorActions, net \in NetsOver(registry, SessionOutcomes) :
       LET r == doGet(action, registry, cacheVersion, clock, net) IN
       /\ cacheVersion' = r.cacheVersion
       /\ handled' = Remember([handler |-> "doGet", on |-> action, now |-> clock,
                               before |-> cacheVersion, after |-> cacheVersion',
                               sent |-> r.sent, response |-> r.response.text.json])
  /\ UNCHANGED <<registry, clock, callVars, clientVars, bumps, courseVars,
                 catalogCalls, serviceVars>>

NextTriggers ==
  \/ RegistryEdited
  \/ AggregatorGet
  \/ ClockTick

SpecTriggers == Init /\ [][NextTriggers]_vars

\* the run h is one of the two invalidation triggers
IsTrigger(h) ==
  \/ h.handler = "onEdit" /\ h.on = CategoriesSheet
  \/ h.handler = "doGet" /\ h.on = "invalidateCache"

\* C23: the token is written by the two invalidation triggers and by nothing
\* else.  onEdit writes the clock reading when the edited sheet is
\* 'Catégories' and leaves the token alone for any other sheet; GET
\* invalidateCache writes the clock reading; getCacheVersion, getPublicCatalog
\* and the default answer leave the token alone.
C23_OnlyTriggersWrite ==
  /\ \A k \in 1..Len(handled) :
       LET h == handled[k] IN
       /\ IsTrigger(h) => h.after = Some(ToString(h.now))
       /\ ~IsTrigger(h) => h.after = h.before
  /\ handled # <<>> => cacheVersion = handled[Len(handled)].after
  /\ Len(handled) = 2 => handled[2].before = handled[1].after

\* an edit of 'Catégories' has written the token, and a later edit of another
\* sheet, at a later clock reading, has left it as it was
C23_Witness ==
  /\ Len(handled) = 2
  /\ handled[1].handler = "onEdit" /\ handled[1].on = CategoriesSheet
  /\ handled[1].after # handled[1].before
  /\ handled[2].handler = "onEdit" /\ handled[2].on # CategoriesSheet
  /\ handled[2].now > handled[1].now
  /\ handled[2].after = handled[2].before
  /\ cacheVersion = handled[1].after

\* the last two runs are a getCacheVersion and a getPublicCatalog, in either
\* order, both answered with success
TwoReads ==
  /\ Len(handled) = 2
  /\ \A k \in 1..2 : handled[k].handler = "doGet" /\ handled[k].response.success
  /\ {handled[1].on, handled[2].on} = {"getCacheVersion", "getPublicCatalog"}

ReadOf(action) == handled[CHOOSE k \in 1..2 : handled[k].on = action]

\* C27: a getCacheVersion and a getPublicCatalog with no invalidation between
\* them return the same cacheVersion, in every state of the aggregator, the
\* one with no token set included; neither writes the token, and
\* getCacheVersion sends no request to the category endpoints.
C27_ReadPathsAgree ==
  TwoReads =>
    /\ ReadOf("getPublicCatalog").response.cacheVersion
         = Some(ReadOf("getCacheVersion").response.cacheVersion)
    /\ \A k \in 1..2 : handled[k].after = handled[k].before
    /\ ReadOf("getCacheVersion").sent = <<>>

----------------------------------------------------------------------------
(* The order of the tokens the browser stores *)

\* the clock reading behind a stored token; "null" is what is stored for an
\* answer made before any invalidation
StoredTokenTime(token) == IF token = "null" THEN 0 ELSE TokenTime(token)

\* C25: every write of 'abmcyCacheVersion' stores a token that is not older
\* than the token it replaces, whatever the order in which the answers of
\* the fetches under way arrive.
C25_ClientTokenMonotone ==
  [][(/\ sessionStorage.abmcyCacheVersion # None
      /\ sessionStorage'.abmcyCacheVersion # sessionStorage.abmcyCacheVersion)
       => /\ sessionStorage'.abmcyCacheVersion # None
          /\ StoredTokenTime(sessionStorage'.abmcyCacheVersion[1])
               >= StoredTokenTime(sessionStorage.abmcyCacheVersion[1])
    ]_vars

----------------------------------------------------------------------------
(* The category service: course rows that share an ID *)

NomsCours == {"Cours A", "Cours B"}

\* the data rows of the sheet Cours_ when its two columns are filled in
\* independently of each other
NamedCoursData ==
  UNION { [1..k -> IdsCours \X NomsCours] : k \in 0..MaxCours }

InitDuplicates ==
  /\ InitAgg(DeployedRegistry)
  /\ InitCall
  /\ InitClient
  /\ bumps = EmptyBag
  /\ spreadsheet \in { Workbook(Some(a), Some(b), Some(<<>>), Some(<<>>), Some(<<>>)) :
                         a \in NamedCoursData, b \in ModulesData }
  /\ ficheOut = None
  /\ editRun = None
  /\ catalogCalls = <<>>
  /\ handled = <<>>
  /\ InitServices

SpecDuplicates == InitDuplicates /\ [][NextCourses]_vars

\* C28: getAllCoursData returns one course sheet for each data row of the
\* sheet Cours_, in the order of the rows, and the i-th course sheet carries
\* the ID and the name of the i-th row, also when two rows have one ID.
C28_OneSheetPerRow ==
  Produced =>
    /\ Len(Fiches) = Len(DataRows("Cours_"))
    /\ \A n \in 1..Len(Fiches) :
         /\ Fiches[n].ID_Cours = DataRows("Cours_")[n][1]
         /\ Fiches[n].Nom_Cours = DataRows("Cours_")[n][2]

----------------------------------------------------------------------------
(* Notifications service: doPost and its handlers *)

UserIds == {"CLT-1", "CLT-2"}

\* `NOTIF-${new Date().getTime()}`
NotifId(now) == <<"NOTIF-", now>>

NotifIds == { NotifId(t) : t \in 0..MaxClock }

\* a handler has returned `response`, leaving the sheet as `sheet`
Returned(response, sheet) == [threw |-> FALSE, value |-> response, sheet |-> sheet]

\* an exception leaves the function, the sheet being `sheet` by then
Thrown(error, sheet) == [threw |-> TRUE, error |-> error, sheet |-> sheet]

\* createNotification(data)
createNotification(data, sheet, now) ==
  IF data = None THEN Thrown("TypeError: Cannot destructure 'data'", sheet)
  ELSE IF ~Has(data[1], "userId") \/ ~Has(data[1], "type") \/ ~Has(data[1], "message")
    THEN Returned([success |-> FALSE, error |-> "Données de notification manquantes."], sheet)
  ELSE IF sheet = None THEN Thrown("TypeError: Cannot read properties of null", sheet)
  ELSE Returned([success |-> TRUE, id |-> NotifId(now)],
                Some(Append(sheet[1], [ID |-> NotifId(now), ID_Client |-> data[1].userId,
                                       Type |-> data[1].type, Message |-> data[1].message,
                                       Statut |-> "Non lue"])))

\* markNotificationsAsRead(data): every row whose ID is among notificationIds
\* gets the Statut "Lue"; userId is only tested for presence
markNotificationsAsRead(data, sheet) ==
  IF data = None THEN Thrown("TypeError: Cannot destructure 'data'", sheet)
  ELSE IF ~Has(data[1], "userId") \/ ~Has(data[1], "notificationIds")
          \/ ~IsArray(data[1].notificationIds)
    THEN Returned([success |-> FALSE,
                   error |-> "Données manquantes pour marquer les notifications comme lues."],
                  sheet)
  ELSE IF sheet = None
    THEN Returned([success |-> FALSE,
                   error |-> "Erreur lors de la mise à jour des notifications: TypeError"],
                  sheet)
  ELSE Returned([success |-> TRUE, message |-> "Notifications mises à jour."],
                Some([i \in 1..Len(sheet[1]) |->
                        IF \E k \in 1..Len(data[1].notificationIds.array) :
                             data[1].notificationIds.array[k] = sheet[1][i].ID
                          THEN [sheet[1][i] EXCEPT !.Statut = "Lue"]
                          ELSE sheet[1][i]]))

\* addCorsHeaders(output) in the catch block of doPost: the script declares no
\* function of that name, so the call throws a ReferenceError
addCorsHeaders(output, sheet) ==
  Thrown("ReferenceError: addCorsHeaders is not defined", sheet)

\* doPost(e) of the notifications service
Notif_doPost(e, sheet, now) ==
  LET Catch(error) ==
        addCorsHeaders([success |-> FALSE, error |-> "Erreur serveur: " \o error], sheet)
  IN
  IF e.postData = None THEN Catch("TypeError: Cannot read properties of undefined")
  ELSE LET parsed == JSONparse(e.postData[1].contents) IN
    IF parsed.threw THEN Catch(parsed.error)
    ELSE LET request == parsed.value
             r == CASE Has(request, "action") /\ request.action = "createNotification" ->
                         createNotification(request.data, sheet, now)
                    [] Has(request, "action") /\ request.action = "markAsRead" ->
                         markNotificationsAsRead(request.data, sheet)
                    [] OTHER ->
                         Returned([success |-> FALSE,
                                   error |-> "Action de notification non reconnue."], sheet)
         IN IF r.threw THEN Catch(r.error) ELSE r

\* the data a request of the notifications service carries for an action
NotifDataOf(action) ==
  CASE action = "createNotification" ->
         {[userId |-> u, type |-> "info", message |-> "Bienvenue"] : u \in UserIds}
           \cup {[userId |-> "CLT-1"]}
    [] action = "markAsRead" ->
         {[userId |-> u, notificationIds |-> [array |-> <<n>>]] :
            u \in UserIds, n \in NotifIds}
           \cup {[userId |-> "CLT-1"]}
    [] OTHER -> {[userId |-> "CLT-1"]}

\* the event objects of a POST to the notifications service
NotifRequests ==
  {[postData |-> None], [postData |-> Some([contents |-> [raw |-> "<html>"]])]} \cup
  {[postData |-> Some([contents |-> [json |-> request]])] :
     request \in UNION { {[action |-> a, data |-> None]} \cup
                         {[action |-> a, data |-> Some(d)] : d \in NotifDataOf(a)} :
                         a \in {"createNotification", "markAsRead", "archive"} } }

\* a POST is handled from its arrival to its response, or to the exception
\* that leaves doPost
NotifPost(e) ==
  /\ LET r == Notif_doPost(e, notifications, clock) IN
       /\ r.sheet # None => Len(r.sheet[1]) <= MaxNotifs
       /\ notifications' = r.sheet
       /\ notifOut' = Some([e |-> e, before |-> notifications,
                            threw |-> r.threw,
                            response |-> IF r.threw THEN None ELSE Some(r.value)])
  /\ UNCHANGED <<catalogSide, orderVars, accountVars, coursAchetes, achatOut>>

InitNotifications ==
  /\ InitAgg(DeployedRegistry)
  /\ InitCall
  /\ InitClient
  /\ bumps = EmptyBag
  /\ spreadsheet = SheetStructures
  /\ ficheOut = None
  /\ editRun = None
  /\ catalogCalls = <<>>
  /\ handled = <<>>
  /\ InitOrders
  /\ InitAccounts
  /\ coursAchetes = [Cours_Achetes |-> Some(<<>>), Reponses_Quiz |-> Some(<<>>)]
  /\ achatOut = None
  /\ notifications \in {None, Some(<<>>)}
  /\ notifOut = None

NextNotifications ==
  \/ \E e \in NotifRequests : NotifPost(e)
  \/ ClockTick

SpecNotifications == InitNotifications /\ [][NextNotifications]_vars

\* the body of the last POST is missing or is no JSON
BadBody(e) == e.postData = None \/ JSONparse(e.postData[1].contents).threw

\* C24: a POST to the notifications service whose body is missing or is not
\* valid JSON is answered {success: false, error: <message>}, and no
\* exception leaves doPost.
C24_NotifDoPostCatches ==
  notifOut # None =>
    /\ ~notifOut[1].threw
    /\ BadBody(notifOut[1].e) =>
         /\ ~notifOut[1].response[1].success
         /\ Has(notifOut[1].response[1], "error")

\* the last POST was a markAsRead that answered success
MarkedAsRead ==
  /\ notifOut # None
  /\ ~notifOut[1].threw
  /\ notifOut[1].response[1].success
  /\ ~BadBody(notifOut[1].e)
  /\ notifOut[1].e.postData[1].contents.json.action = "markAsRead"

MarkData == notifOut[1].e.postData[1].contents.json.data[1]

\* C30: markAsRead for user u changes the Statut of rows of u only: a row of
\* another user is as it was, a row of u whose ID is among notificationIds
\* has the Statut 'Lue', every other cell is as it was.
C30_MarkAsReadOwnRowsOnly ==
  MarkedAsRead =>
    LET before == notifOut[1].before[1]
        after == notifications[1]
    IN /\ Len(after) = Len(before)
       /\ \A i \in 1..Len(before) :
            IF /\ before[i].ID_Client = MarkData.userId
               /\ \E k \in 1..Len(MarkData.notificationIds.array) :
                    MarkData.notificationIds.array[k] = before[i].ID
              THEN after[i] = [before[i] EXCEPT !.Statut = "Lue"]
              ELSE after[i] = before[i]

----------------------------------------------------------------------------
(* Learning service: doPost, acheterCours, enregistrerReponseQuiz *)

\* the objects of a cart; the last one carries no productId
Items ==
  {[productId |-> "C-001", name |-> "Cours A", price |-> 10, instructor |-> "Senior"],
   [name |-> "Cours C", price |-> 30, instructor |-> "Senior"]}

\* the arrays of at most MaxItems items
Carts == UNION { [1..n -> Items] : n \in 0..MaxItems }

\* the index of the first item whose productId.slice(-4) throws, or one past
\* the end when there is none
FirstBadItem(items) ==
  IF \E i \in 1..Len(items) : ~Has(items[i], "productId")
    THEN CHOOSE i \in 1..Len(items) :
           /\ ~Has(items[i], "productId")
           /\ \A j \in 1..(i - 1) : Has(items[j], "productId")
    ELSE Len(items) + 1

\* the row appendRow writes for an item
AchatRow(userId, item, now) ==
  [ID_Achat |-> <<"ACH-", now, item.productId>>, ID_Client |-> userId,
   ID_Cours |-> item.productId, Nom_Cours |-> item.name,
   Prix_Achat |-> item.price, Formateur_Nom |-> item.instructor]

\* acheterCours(data): items.forEach appends a row per item as it goes
acheterCours(data, sheets, now) ==
  IF data = None THEN Thrown("TypeError: Cannot destructure 'data'", sheets)
  ELSE IF \/ ~Has(data[1], "userId") \/ ~Has(data[1], "items")
          \/ ~IsArray(data[1].items) \/ Len(data[1].items.array) = 0
    THEN Returned([success |-> FALSE, error |-> "Données d'achat invalides."], sheets)
  ELSE LET items == data[1].items.array
           k == FirstBadItem(items)
       IN IF sheets.Cours_Achetes = None
            THEN Thrown(IF k = 1 THEN "TypeError: Cannot read properties of undefined"
                                 ELSE "TypeError: Cannot read properties of null", sheets)
            ELSE LET appended == [i \in 1..(k - 1) |-> AchatRow(data[1].userId, items[i], now)]
                     after == [sheets EXCEPT !.Cours_Achetes =
                                               Some(sheets.Cours_Achetes[1] \o appended)]
                 IN IF k <= Len(items)
                      THEN Thrown("TypeError: Cannot read properties of undefined", after)
                      ELSE Returned([success |-> TRUE, message |-> <<Len(items), " cours acheté(s) avec succès.">>],
                                    after)

\* enregistrerReponseQuiz(data)
enregistrerReponseQuiz(data, sheets, now) ==
  IF data = None THEN Thrown("TypeError: Cannot destructure 'data'", sheets)
  ELSE IF sheets.Reponses_Quiz = None
    THEN Thrown("TypeError: Cannot read properties of null", sheets)
  ELSE Returned([success |-> TRUE, id |-> <<"REP-", now>>],
                [sheets EXCEPT !.Reponses_Quiz =
                   Some(Append(sheets.Reponses_Quiz[1],
                               [ID_Reponse |-> <<"REP-", now>>, data |-> data[1]]))])

\* output.addHeader(...) in createJsonResponse: the call returns where the
\* runtime's TextOutput has the method and throws a TypeError where it has not
AddHeaderOutcomes == {"returns", "TypeError"}

\* doPost(e) of the learning service; both the try block and the catch block
\* answer through createJsonResponse
Cours_doPost(e, sheets, now, addHeader) ==
  LET r == IF e.postData = None
             THEN Thrown("TypeError: Cannot read properties of undefined", sheets)
           ELSE LET parsed == JSONparse(e.postData[1].contents) IN
             IF parsed.threw THEN Thrown(parsed.error, sheets)
             ELSE LET request == parsed.value IN
               CASE Has(request, "action") /\ request.action = "acheterCours" ->
                      acheterCours(request.data, sheets, now)
                 [] Has(request, "action") /\ request.action = "enregistrerReponseQuiz" ->
                      enregistrerReponseQuiz(request.data, sheets, now)
                 [] OTHER ->
                      Returned([success |-> FALSE, error |-> "Action POST non reconnue."],
                               sheets)
  IN IF addHeader = "TypeError"
       THEN Thrown("TypeError: output.addHeader is not a function", r.sheet)
     ELSE IF r.threw
       THEN Returned([success |-> FALSE, error |-> "Erreur POST: " \o r.error], r.sheet)
     ELSE r

\* the data a request of the learning service carries for an action
CoursDataOf(action) ==
  CASE action = "acheterCours" ->
         {[userId |-> u, items |-> [array |-> c]] : u \in UserIds, c \in Carts}
           \cup {[userId |-> "CLT-1"], [items |-> [array |-> <<>>]]}
    [] action = "enregistrerReponseQuiz" ->
         {[userId |-> "CLT-1", questionId |-> "Q-1", reponseDonnee |-> "A",
           estCorrecte |-> TRUE]}
    [] OTHER -> {[userId |-> "CLT-1"]}

\* the event objects of a POST to the learning service
CoursRequests ==
  {[postData |-> None], [postData |-> Some([contents |-> [raw |-> "<html>"]])]} \cup
  {[postData |-> Some([contents |-> [json |-> request]])] :
     request \in UNION { {[action |-> a, data |-> None]} \cup
                         {[action |-> a, data |-> Some(d)] : d \in CoursDataOf(a)} :
                         a \in {"acheterCours", "enregistrerReponseQuiz", "rembourser"} } }

\* a POST is handled from its arrival to its response, or to the exception
\* that leaves doPost
CoursPost(e, addHeader) ==
  /\ LET r == Cours_doPost(e, coursAchetes, clock, addHeader) IN
       /\ \A f \in DOMAIN r.sheet : r.sheet[f] # None => Len(r.sheet[f][1]) <= MaxAchats
       /\ coursAchetes' = r.sheet
       /\ achatOut' = Some([e |-> e, before |-> coursAchetes,
                            threw |-> r.threw,
                            response |-> IF r.threw THEN None ELSE Some(r.value)])
  /\ UNCHANGED <<catalogSide, orderVars, accountVars, notifications, notifOut>>

InitAchats ==
  /\ InitAgg(DeployedRegistry)
  /\ InitCall
  /\ InitClient
  /\ bumps = EmptyBag
  /\ spreadsheet = SheetStructures
  /\ ficheOut = None
  /\ editRun = None
  /\ catalogCalls = <<>>
  /\ handled = <<>>
  /\ InitOrders
  /\ InitAccounts
  /\ coursAchetes \in {[Cours_Achetes |-> a, Reponses_Quiz |-> Some(<<>>)] :
                          a \in {None, Some(<<>>)}}
  /\ achatOut = None
  /\ notifications = Some(<<>>)
  /\ notifOut = None

NextAchats ==
  \/ \E e \in CoursRequests, addHeader \in AddHeaderOutcomes : CoursPost(e, addHeader)
  \/ ClockTick

SpecAchats == InitAchats /\ [][NextAchats]_vars

\* the last POST was an acheterCours that got an answer
AchatAnswered ==
  /\ achatOut # None
  /\ ~achatOut[1].threw
  /\ achatOut[1].e.postData # None
  /\ ~JSONparse(achatOut[1].e.postData[1].contents).threw
  /\ achatOut[1].e.postData[1].contents.json.action = "acheterCours"

AchatData == achatOut[1].e.postData[1].contents.json.data

\* C29: acheterCours is all-or-nothing: answered success:false, it has
\* appended no row to Cours_Achetés; answered success:true, it has appended
\* exactly one row per item, each with the caller's userId.
C29_AcheterCoursAllOrNothing ==
  AchatAnswered =>
    LET before == achatOut[1].before.Cours_Achetes
        after == coursAchetes.Cours_Achetes
    IN IF achatOut[1].response[1].success
         THEN /\ Len(after[1]) = Len(before[1]) + Len(AchatData[1].items.array)
              /\ SubSeq(after[1], 1, Len(before[1])) = before[1]
              /\ \A i \in (Len(before[1]) + 1)..Len(after[1]) :
                   after[1][i].ID_Client = AchatData[1].userId
         ELSE after = before

====
